---------------------------- MODULE Spec2Model ----------------------------
(***************************************************************************)
(* Model of the pipelined RV64 simulator of Naive-SysY-Simulator           *)
(* (src/src/simulator): guest memory (mem.rs), CPU state and pipeline      *)
(* registers (cpu.rs), the stage functions (decode.rs), the pipeline step  *)
(* with hazard and misprediction logic (pipe.rs) and the command loops of  *)
(* the debugger shell that drive it (gui.rs).                              *)
(*                                                                         *)
(* A u64 is a tuple of 8 bytes, least significant first; a u32 (an         *)
(* instruction word) is a tuple of 4 bytes.  All arithmetic is done on     *)
(* these tuples at the program's real width.                               *)
(***************************************************************************)
EXTENDS Integers, Sequences, FiniteSets, TLC

VARIABLES
    mem,                \* Memory.mem: the guest byte array
    cpu,                \* Pipeline.cpu: CPUState
    D_reg, E_reg, M_reg, W_reg,     \* committed pipeline registers
    d_reg, e_reg, m_reg, w_reg,     \* shadow pipeline registers
    f_stall, d_stall,   \* Pipeline.f_stall, Pipeline.d_stall
    branch_count,       \* Pipeline.branch_count
    data_hazard_count,  \* Pipeline.data_hazard_count
    overflow_checks,    \* build profile: TRUE = integer overflow panics (debug)
    proc,               \* the simulator process: "alive", "panicked", "exited", "crashed"
    report,             \* what the last halt_trap printed
    cmd,                \* position of GuiApp.execute_command: "idle", "c", "si"
    left,               \* iterations left of the running command's for loop
    step_counter,       \* GuiApp.step_counter
    ev,                 \* history: what the last completed step did
    mret,               \* the last direct memory call and its result
    mops,               \* history: number of direct memory calls made
    comp                \* the compiler: its input and the Env it has built

vars == <<mem, cpu, D_reg, E_reg, M_reg, W_reg, d_reg, e_reg, m_reg, w_reg,
          f_stall, d_stall, branch_count, data_hazard_count, overflow_checks,
          proc, report, cmd, left, step_counter, ev, mret, mops, comp>>

pipevars == <<cpu, D_reg, E_reg, M_reg, W_reg, d_reg, e_reg, m_reg, w_reg,
              f_stall, d_stall, branch_count, data_hazard_count>>

-----------------------------------------------------------------------------
(* Bounds of the model *)

\* number of freely chosen instructions of a loaded image
ProgLen == 4
\* words of padding (NOPs) that follow the image's final ebreak
PadLen == 2
\* guest bytes that follow the image (zero, as Memory::new leaves them)
TailBytes == 4
\* Pipeline.step is not taken once cycle_count has reached this
MaxCycles == 11
\* largest N of an 'si N' command
MaxSi == 1
\* direct memory calls made in the memory specification
MaxMemOps == 2

-----------------------------------------------------------------------------
(* Fixed-width values *)

Byte == 0..255

Zero64 == <<0, 0, 0, 0, 0, 0, 0, 0>>

Ones64 == <<255, 255, 255, 255, 255, 255, 255, 255>>

\* bit p (0 = least significant) of a byte tuple
Bit(v, p) == (v[(p \div 8) + 1] \div (2 ^ (p % 8))) % 2

\* `n as u64` for a non-negative n below 2^31
FromInt(n) ==
    [i \in 1..8 |-> IF i <= 4 THEN (n \div (256 ^ (i - 1))) % 256 ELSE 0]

\* `v as usize` for a value below 2^24 (guest offsets of this model)
ToInt(v) == v[1] + 256 * v[2] + 65536 * v[3]

\* `w as u64` for a byte tuple w of at most 8 bytes (zero extension)
ZExt(w) == [i \in 1..8 |-> IF i <= Len(w) THEN w[i] ELSE 0]

\* `v as uN`: the low n bytes
Trunc(v, n) == [i \in 1..n |-> v[i]]

\* carries of a + b: c[i] is the carry into byte i, c[9] the carry out
CarryOf(a, b) ==
    LET c2 == (a[1] + b[1]) \div 256
        c3 == (a[2] + b[2] + c2) \div 256
        c4 == (a[3] + b[3] + c3) \div 256
        c5 == (a[4] + b[4] + c4) \div 256
        c6 == (a[5] + b[5] + c5) \div 256
        c7 == (a[6] + b[6] + c6) \div 256
        c8 == (a[7] + b[7] + c7) \div 256
        c9 == (a[8] + b[8] + c8) \div 256
    IN  <<0, c2, c3, c4, c5, c6, c7, c8, c9>>

\* a.wrapping_add(b)
WrappingAdd(a, b) ==
    LET c == CarryOf(a, b) IN [i \in 1..8 |-> (a[i] + b[i] + c[i]) % 256]

\* a + b overflows u64
AddOverflows(a, b) == CarryOf(a, b)[9] = 1

\* two's complement negation
Neg(a) == WrappingAdd([i \in 1..8 |-> 255 - a[i]], FromInt(1))

\* a.wrapping_sub(b)
WrappingSub(a, b) == WrappingAdd(a, Neg(b))

\* a < b on u64
LtU(a, b) == \E i \in 1..8 : a[i] < b[i] /\ \A j \in (i + 1)..8 : a[j] = b[j]

\* (a as i64) < (b as i64)
LtS(a, b) ==
    IF (a[8] >= 128) # (b[8] >= 128) THEN a[8] >= 128 ELSE LtU(a, b)

\* sext(val, len): the shift `!0 << len` wraps its amount to len % 64 when
\* overflow checks are off
sext(val, len) ==
    LET k == len % 64 IN
    IF Bit(val, len - 1) = 1
    THEN [i \in 1..8 |->
            IF 8 * i - 8 >= k THEN 255
            ELSE IF 8 * i <= k THEN val[i]
            ELSE (val[i] % (2 ^ (k - 8 * i + 8))) + 256 - (2 ^ (k - 8 * i + 8))]
    ELSE val

\* sext(val, len) panics: `!0 << len` with len = 64 and overflow checks on
sext_panics(val, len, oc) == oc /\ len >= 64 /\ Bit(val, len - 1) = 1

-----------------------------------------------------------------------------
(* Guest memory: mem.rs *)

MEM_BASE == <<0, 0, 0, 128, 0, 0, 0, 0>>

\* bytes of a loaded image: the chosen instructions, ebreak, padding
ImageBytes == 4 * (ProgLen + 1 + PadLen)

\* size of guest memory, scaled from 0x8000000 to the image plus a tail
MEM_SIZE == ImageBytes + TailBytes

\* MEM_BASE + MEM_SIZE as u64
MEM_END == WrappingAdd(MEM_BASE, FromInt(MEM_SIZE))

\* outcomes of a host access outside the array (undefined behaviour): -1 is a
\* fault that kills the process, otherwise the byte found out there
UbChoices == {-1, 0, 255}

MemErr(e) == [ok |-> FALSE, err |-> e, off |-> 0]

\* guest_to_host with the upper bound compared the wrong way (off by one)
guest_to_host_wrong(addr) ==
    IF LtU(addr, MEM_BASE) \/ LtU(MEM_END, addr)
    THEN MemErr("InvalidAddress")
    ELSE [ok |-> TRUE, err |-> "", off |-> ToInt(WrappingSub(addr, MEM_BASE))]

\* Memory::guest_to_host, guest_to_host_mut: the offset into the array
guest_to_host(addr) ==
    IF LtU(addr, MEM_BASE) \/ ~LtU(addr, MEM_END)
    THEN MemErr("InvalidAddress")
    ELSE [ok |-> TRUE, err |-> "", off |-> ToInt(WrappingSub(addr, MEM_BASE))]

\* host_read::<uN>: n bytes from offset off; bytes past the array are ub
host_read(m, off, n, ub) ==
    [i \in 1..n |-> IF off + i - 1 < MEM_SIZE THEN m[off + i - 1] ELSE ub]

\* host_write::<uN>: the bytes that land inside the array
host_write(m, off, w) ==
    [o \in 0..(MEM_SIZE - 1) |->
        IF off <= o /\ o < off + Len(w) THEN w[o - off + 1] ELSE m[o]]

\* a host access of n bytes at off leaves the array
OutOfArray(off, n) == off + n > MEM_SIZE

\* mem_read after the address translation h
mem_read_at(m, h, len, ub) ==
    IF ~h.ok THEN [ok |-> FALSE, err |-> h.err, val |-> Zero64, ub |-> FALSE]
    ELSE IF len \in {1, 2, 4, 8}
    THEN [ok |-> TRUE, err |-> "",
          val |-> ZExt(host_read(m, h.off, len, ub)),
          ub |-> OutOfArray(h.off, len)]
    ELSE [ok |-> FALSE, err |-> "InvalidReadLength", val |-> Zero64, ub |-> FALSE]

\* Memory::mem_read
mem_read(m, addr, len, ub) == mem_read_at(m, guest_to_host(addr), len, ub)

\* mem_write after the address translation h
mem_write_at(m, h, len, data) ==
    IF ~h.ok THEN [ok |-> FALSE, err |-> h.err, mem |-> m, ub |-> FALSE]
    ELSE IF len \in {1, 2, 4, 8}
    THEN [ok |-> TRUE, err |-> "",
          mem |-> host_write(m, h.off, Trunc(data, len)),
          ub |-> OutOfArray(h.off, len)]
    ELSE [ok |-> FALSE, err |-> "InvalidWriteLength", mem |-> m, ub |-> FALSE]

\* Memory::mem_write
mem_write(m, addr, len, data) == mem_write_at(m, guest_to_host(addr), len, data)

\* inst_fetch after the address translation h
inst_fetch_at(m, pc, h, ub) ==
    IF pc = Zero64
    THEN [ok |-> FALSE, err |-> "ZeroPc", val |-> <<0, 0, 0, 0>>, ub |-> FALSE]
    ELSE IF ~h.ok
    THEN [ok |-> FALSE, err |-> h.err, val |-> <<0, 0, 0, 0>>, ub |-> FALSE]
    ELSE [ok |-> TRUE, err |-> "",
          val |-> host_read(m, h.off, 4, ub),
          ub |-> OutOfArray(h.off, 4)]

\* Memory::inst_fetch
inst_fetch(m, pc, ub) ==
    inst_fetch_at(m, pc, IF pc = Zero64 THEN MemErr("ZeroPc") ELSE guest_to_host(pc), ub)

-----------------------------------------------------------------------------
(* Instruction words and the match table: decode.rs, instruction.rs *)

\* bits!(inst, high, low)
Max(a, b) == IF a > b THEN a ELSE b

Min(a, b) == IF a < b THEN a ELSE b

\* the bits lo..hi of the byte b that holds bits base..base+7, placed in a
\* field that starts at bit low
FieldPart(b, base, lo, hi, low) ==
    IF lo > hi THEN 0
    ELSE ((b \div (2 ^ (lo - base))) % (2 ^ (hi - lo + 1))) * (2 ^ (lo - low))

Bits(inst, high, low) ==
    FieldPart(inst[1], 0, Max(low, 0), Min(high, 7), low)
    + FieldPart(inst[2], 8, Max(low, 8), Min(high, 15), low)
    + FieldPart(inst[3], 16, Max(low, 16), Min(high, 23), low)
    + FieldPart(inst[4], 24, Max(low, 24), Min(high, 31), low)

\* the 32-bit word with the given fields, as 4 bytes (bits 31:25, 24:20,
\* 19:15, 14:12, 11:7, 6:0)
Word(f7, rs2, rs1, f3, rd, op) ==
    << op + 128 * (rd % 2),
       (rd \div 2) + 16 * f3 + 128 * (rs1 % 2),
       (rs1 \div 2) + 16 * (rs2 % 16),
       (rs2 \div 16) + 2 * f7 >>

NOP_INST == <<19, 0, 0, 0>>

EBREAK_INST == <<115, 0, 16, 0>>

NoInst == [name |-> "", ty |-> ""]

\* the rows of INSTRUCTIONS for the mnemonics execute_stage names that the
\* loaded images use (RV64I base opcodes) and for the word-width operations
\* of RV64I and RV64M; a word no row matches is None
INSTRUCTIONS(inst, op, f3, f7) ==
        CASE op = 55 -> [name |-> "lui", ty |-> "U"]
          [] op = 23 -> [name |-> "auipc", ty |-> "U"]
          [] op = 111 -> [name |-> "jal", ty |-> "J"]
          [] op = 103 /\ f3 = 0 -> [name |-> "jalr", ty |-> "I"]
          [] op = 99 /\ f3 = 0 -> [name |-> "beq", ty |-> "B"]
          [] op = 99 /\ f3 = 1 -> [name |-> "bne", ty |-> "B"]
          [] op = 99 /\ f3 = 4 -> [name |-> "blt", ty |-> "B"]
          [] op = 99 /\ f3 = 5 -> [name |-> "bge", ty |-> "B"]
          [] op = 99 /\ f3 = 6 -> [name |-> "bltu", ty |-> "B"]
          [] op = 99 /\ f3 = 7 -> [name |-> "bgeu", ty |-> "B"]
          [] op = 3 /\ f3 = 0 -> [name |-> "lb", ty |-> "I"]
          [] op = 3 /\ f3 = 1 -> [name |-> "lh", ty |-> "I"]
          [] op = 3 /\ f3 = 2 -> [name |-> "lw", ty |-> "I"]
          [] op = 3 /\ f3 = 3 -> [name |-> "ld", ty |-> "I"]
          [] op = 3 /\ f3 = 4 -> [name |-> "lbu", ty |-> "I"]
          [] op = 3 /\ f3 = 5 -> [name |-> "lhu", ty |-> "I"]
          [] op = 3 /\ f3 = 6 -> [name |-> "lwu", ty |-> "I"]
          [] op = 35 /\ f3 = 0 -> [name |-> "sb", ty |-> "S"]
          [] op = 35 /\ f3 = 1 -> [name |-> "sh", ty |-> "S"]
          [] op = 35 /\ f3 = 2 -> [name |-> "sw", ty |-> "S"]
          [] op = 35 /\ f3 = 3 -> [name |-> "sd", ty |-> "S"]
          [] op = 19 /\ f3 = 0 -> [name |-> "addi", ty |-> "I"]
          [] op = 27 /\ f3 = 0 -> [name |-> "addiw", ty |-> "I"]
          [] op = 51 /\ f3 = 0 /\ f7 = 0 -> [name |-> "add", ty |-> "R"]
          [] op = 51 /\ f3 = 0 /\ f7 = 32 -> [name |-> "sub", ty |-> "R"]
          [] op = 59 /\ f3 = 0 /\ f7 = 0 -> [name |-> "addw", ty |-> "R"]
          [] op = 59 /\ f3 = 0 /\ f7 = 32 -> [name |-> "subw", ty |-> "R"]
          [] op = 27 /\ f3 = 1 /\ f7 = 0 -> [name |-> "slliw", ty |-> "I"]
          [] op = 27 /\ f3 = 5 /\ f7 = 0 -> [name |-> "srliw", ty |-> "I"]
          [] op = 27 /\ f3 = 5 /\ f7 = 32 -> [name |-> "sraiw", ty |-> "I"]
          [] op = 59 /\ f3 = 1 /\ f7 = 0 -> [name |-> "sllw", ty |-> "R"]
          [] op = 59 /\ f3 = 5 /\ f7 = 0 -> [name |-> "srlw", ty |-> "R"]
          [] op = 59 /\ f3 = 5 /\ f7 = 32 -> [name |-> "sraw", ty |-> "R"]
          [] op = 59 /\ f3 = 0 /\ f7 = 1 -> [name |-> "mulw", ty |-> "R"]
          [] op = 59 /\ f3 = 4 /\ f7 = 1 -> [name |-> "divw", ty |-> "R"]
          [] op = 59 /\ f3 = 5 /\ f7 = 1 -> [name |-> "divuw", ty |-> "R"]
          [] op = 59 /\ f3 = 6 /\ f7 = 1 -> [name |-> "remw", ty |-> "R"]
          [] op = 59 /\ f3 = 7 /\ f7 = 1 -> [name |-> "remuw", ty |-> "R"]
          [] inst = EBREAK_INST -> [name |-> "ebreak", ty |-> "N"]
          [] OTHER -> NoInst

\* check_inst: the first matching row, or None
check_inst(inst) ==
    INSTRUCTIONS(inst, Bits(inst, 6, 0), Bits(inst, 14, 12), Bits(inst, 31, 25))

BranchNames == {"beq", "bne", "blt", "bge", "bltu", "bgeu"}

StoreNames == {"sb", "sh", "sw", "sd"}

\* the mnemonics execute_stage and memory_stage treat as loads
LoadNames == {"lb", "lh", "lw", "ld", "lbu", "lhu", "lwu"}

-----------------------------------------------------------------------------
(* CPU state and pipeline registers: cpu.rs *)

\* CPUState::new
CPUState_new ==
    [reg |-> [i \in 0..31 |-> Zero64], pc |-> MEM_BASE, running |-> FALSE,
     next_pc |-> Zero64, pred_pc |-> Zero64,
     cycle_count |-> 0, inst_count |-> 0, branch_count |-> 0,
     data_hazard_count |-> 0]

\* IFIDReg { inst, ..default }
IFIDReg(inst) == [pc |-> Zero64, inst |-> inst]

\* IDEXReg { inst, ..default }
IDEXReg(inst) ==
    [pc |-> Zero64, inst |-> inst, rd |-> 0, rs1 |-> 0, rs2 |-> 0,
     src1 |-> Zero64, src2 |-> Zero64, imm |-> Zero64,
     jump |-> FALSE, load |-> FALSE, store |-> FALSE]

\* EXMEMReg { inst, ..default }
EXMEMReg(inst) ==
    [pc |-> Zero64, inst |-> inst, rd |-> 0, src2 |-> Zero64,
     alu_out |-> Zero64, load |-> FALSE, store |-> FALSE]

\* MEMWBReg { inst, ..default }, with the load and store fields memory_stage sets
MEMWBReg(inst) ==
    [pc |-> Zero64, inst |-> inst, rd |-> 0, alu_out |-> Zero64,
     mem_data |-> Zero64, load |-> FALSE, store |-> FALSE]

NoReport ==
    [trap |-> "none", counters |-> FALSE, inst_count |-> 0, cycle_count |-> 0,
     data_hazard |-> 0, branch |-> 0, pc |-> Zero64, code |-> Zero64]

\* halt_trap that prints but leaves running set
halt_trap_keeps_running(c, pc, code) ==
    [cpu |-> c,
     report |->
        IF code # Zero64
        THEN [NoReport EXCEPT !.trap = "bad", !.pc = pc, !.code = code]
        ELSE [trap |-> "good", counters |-> TRUE,
              inst_count |-> c.inst_count, cycle_count |-> c.cycle_count,
              data_hazard |-> c.data_hazard_count, branch |-> c.branch_count,
              pc |-> pc, code |-> code]]

\* CPUState::halt_trap: the printed status and counters, running cleared
halt_trap(c, pc, code) ==
    [cpu |-> [c EXCEPT !.running = FALSE],
     report |->
        IF code # Zero64
        THEN [NoReport EXCEPT !.trap = "bad", !.pc = pc, !.code = code]
        ELSE [trap |-> "good", counters |-> TRUE,
              inst_count |-> c.inst_count, cycle_count |-> c.cycle_count,
              data_hazard |-> c.data_hazard_count, branch |-> c.branch_count,
              pc |-> pc, code |-> code]]

-----------------------------------------------------------------------------
(* The stage functions: decode.rs *)

Four == FromInt(4)

\* (v as i32) as u64
SExt32(v) == [i \in 1..8 |-> IF i <= 4 THEN v[i] ELSE IF v[4] >= 128 THEN 255 ELSE 0]

\* v << 12 on u64
Shl12(v) ==
    [i \in 1..8 |->
        IF i = 1 THEN 0
        ELSE IF i = 2 THEN (v[1] % 16) * 16
        ELSE (v[i - 2] \div 16) + (v[i - 1] % 16) * 16]

\* v & !1
ClearBit0(v) == [v EXCEPT ![1] = @ - (@ % 2)]

\* the ends of the i32 range
I32Max == 2147483647
I32Min == -I32Max - 1

\* a / b rounded toward zero as the 64-bit division leaves it in the low
\* 32 bits, b not 0
TruncDiv(a, b) ==
    IF b > 0 THEN (IF a >= 0 THEN a \div b ELSE ((a + b) - 1) \div b)
    ELSE IF b = I32Min THEN (IF a = I32Min THEN 1 ELSE 0)
    ELSE IF a >= 0 THEN -(a \div (-b))
    ELSE IF a = I32Min /\ b = -1 THEN I32Min
    ELSE -(((a + (-b)) - 1) \div (-b))

\* the remainder of that division
TruncRem(a, b) ==
    IF a = I32Min /\ b = -1 THEN 0 ELSE a - b * TruncDiv(a, b)

\* the 4 bytes whose bit i is b[i], for b over 0..31
Pack32(b) ==
    [i \in 1..4 |->
        b[8 * i - 8] + 2 * b[8 * i - 7] + 4 * b[8 * i - 6] + 8 * b[8 * i - 5]
        + 16 * b[8 * i - 4] + 32 * b[8 * i - 3] + 64 * b[8 * i - 2]
        + 128 * b[8 * i - 1]]

\* (v << n) as u32, for n in 0..63
Shl32(v, n) == Pack32([i \in 0..31 |-> IF i >= n THEN Bit(v, i - n) ELSE 0])

\* (v as u32) >> n with the vacated bits set to fill, for n in 0..31
Shr32(v, n, fill) ==
    Pack32([i \in 0..31 |-> IF i + n <= 31 THEN Bit(v, i + n) ELSE fill])

\* the low 32 bits of (a as u32) * (b as u32)
Mul32(a, b) ==
    LET p1 == a[1] * b[1]
        p2 == a[1] * b[2] + a[2] * b[1] + (p1 \div 256)
        p3 == a[1] * b[3] + a[2] * b[2] + a[3] * b[1] + (p2 \div 256)
        p4 == a[1] * b[4] + a[2] * b[3] + a[3] * b[2] + a[4] * b[1] + (p3 \div 256)
    IN  <<p1 % 256, p2 % 256, p3 % 256, p4 % 256>>

\* the low 31 bits of v as a number
U31(v) == v[1] + 256 * v[2] + 65536 * v[3] + 16777216 * (v[4] % 128)

\* v as i32
ToI32(v) == IF v[4] >= 128 THEN (U31(v) - I32Max) - 1 ELSE U31(v)

\* (n as i32) as u64
FromI32(n) ==
    IF n >= 0 THEN FromInt(n)
    ELSE [i \in 1..8 |->
            IF i <= 3 THEN (((n + I32Max) + 1) \div (256 ^ (i - 1))) % 256
            ELSE IF i = 4 THEN (((n + I32Max) + 1) \div 16777216) + 128
            ELSE 255]

\* (a as u32) / 2 as a number
HalfU32(v) == (v[1] \div 2) + 128 * v[2] + 32768 * v[3] + 8388608 * v[4]

\* 2 * q + c as u64, for q below 2^31 and c in 0..1
Twice(q, c) == WrappingAdd(WrappingAdd(FromInt(q), FromInt(q)), FromInt(c))

\* (a as u32) / (b as u32) and the remainder, as u64, for b not 0: with h the
\* half of a, q1 and r1 the quotient and remainder of h by b
DivU32_small(a, b, q1, r1) ==
    LET al == a[1] % 2
        up == r1 >= (b - r1) - al
    IN  [q |-> Twice(q1, IF up THEN 1 ELSE 0),
         r |-> FromInt(IF up THEN r1 - ((b - r1) - al) ELSE 2 * r1 + al)]

\* the same for a divisor with bit 31 set: the quotient is 0 or 1
DivU32_big(a, b) ==
    IF LtU(a, b) THEN [q |-> Zero64, r |-> a]
    ELSE [q |-> FromInt(1), r |-> WrappingSub(a, b)]

DivU32(a, b) ==
    IF b[4] >= 128 THEN DivU32_big(ZExt(Trunc(a, 4)), ZExt(Trunc(b, 4)))
    ELSE DivU32_small(a, U31(b), HalfU32(a) \div U31(b), HalfU32(a) % U31(b))

\* the low n bits of v as a number, n at most 6
LowBits(v, n) == v[1] % (2 ^ n)

\* a division of execute_stage: wrapping_div and wrapping_rem panic on a zero
\* divisor
exec_div(out, divisor, keep) ==
    IF Trunc(divisor, 4) = <<0, 0, 0, 0>> THEN [alu_out |-> Zero64, next_pc |-> keep, panic |-> TRUE]
    ELSE [alu_out |-> out, next_pc |-> keep, panic |-> FALSE]

\* the immediate decode_stage computes for a word of format ty
decode_imm(inst, ty) ==
    CASE ty = "I" -> sext(FromInt(Bits(inst, 31, 20)), 12)
      [] ty = "U" -> Shl12(sext(FromInt(Bits(inst, 31, 12)), 20))
      [] ty = "J" -> sext(FromInt(Bits(inst, 31, 31) * 1048576
                                  + Bits(inst, 19, 12) * 4096
                                  + Bits(inst, 20, 20) * 2048
                                  + Bits(inst, 30, 21) * 2), 21)
      [] ty = "S" -> sext(FromInt(Bits(inst, 31, 25) * 32 + Bits(inst, 11, 7)), 12)
      [] ty = "B" -> sext(FromInt(Bits(inst, 31, 31) * 4096
                                  + Bits(inst, 7, 7) * 2048
                                  + Bits(inst, 30, 25) * 32
                                  + Bits(inst, 11, 8) * 2), 13)
      [] OTHER -> Zero64

\* the load flag of decode_stage
decode_load(name) == name \in {"lb", "lh", "lw", "ld", "lbu", "lhu"}

\* decode_stage after check_inst (i) and the extraction of rd, rs1, rs2
decode_fields(c, s, i, rd, rs1, rs2) ==
    IF i = NoInst
    THEN [panic |-> TRUE, reg |-> IDEXReg(s.inst)]
    ELSE [panic |-> FALSE,
          reg |-> [pc |-> s.pc, inst |-> s.inst,
                   rd |-> rd, rs1 |-> rs1, rs2 |-> rs2,
                   src1 |-> IF i.ty \in {"I", "S", "B", "R"}
                            THEN c.reg[rs1] ELSE Zero64,
                   src2 |-> IF i.ty \in {"S", "B", "R"}
                            THEN c.reg[rs2] ELSE Zero64,
                   imm |-> decode_imm(s.inst, i.ty),
                   jump |-> i.name \in {"jal", "jalr"} \cup BranchNames,
                   load |-> decode_load(i.name),
                   store |-> i.name \in StoreNames]]

\* decode_stage(cpu, s): the ID/EX register, or a panic on a word no row matches
decode_stage(c, s) ==
    decode_fields(c, s, check_inst(s.inst),
                  Bits(s.inst, 11, 7), Bits(s.inst, 19, 15), Bits(s.inst, 24, 20))

\* one arm's result: alu_out, cpu.next_pc, and whether a Rust `+` or `-` of
\* the arm panics (it overflows and overflow checks are on)
Alu(out, npc, pan) == [alu_out |-> out, next_pc |-> npc, panic |-> pan]

\* the branch arms of execute_stage: next_pc for a branch that is taken or not
exec_branch(s, taken, oc) ==
    IF taken
    THEN Alu(Zero64, WrappingAdd(s.pc, s.imm), oc /\ AddOverflows(s.pc, s.imm))
    ELSE Alu(Zero64, WrappingAdd(s.pc, Four), oc /\ AddOverflows(s.pc, Four))

\* the match of execute_stage on the mnemonic: alu_out, cpu.next_pc, panic
exec_alu(s, name, src1, src2, imm, keep, oc) ==
    CASE name = "lui" -> Alu(imm, keep, FALSE)
      [] name = "auipc" ->
            Alu(WrappingAdd(s.pc, imm), keep, oc /\ AddOverflows(s.pc, imm))
      [] name = "jal" ->
            Alu(WrappingAdd(s.pc, Four), WrappingAdd(s.pc, imm),
                oc /\ (AddOverflows(s.pc, imm) \/ AddOverflows(s.pc, Four)))
      [] name = "jalr" ->
            Alu(WrappingAdd(s.pc, Four), ClearBit0(WrappingAdd(src1, imm)),
                oc /\ (AddOverflows(src1, imm) \/ AddOverflows(s.pc, Four)))
      [] name = "beq" -> exec_branch(s, src1 = src2, oc)
      [] name = "bne" -> exec_branch(s, src1 # src2, oc)
      [] name = "blt" -> exec_branch(s, LtS(src1, src2), oc)
      [] name = "bge" -> exec_branch(s, ~LtS(src1, src2), oc)
      [] name = "bltu" -> exec_branch(s, LtU(src1, src2), oc)
      [] name = "bgeu" -> exec_branch(s, ~LtU(src1, src2), oc)
      [] name \in LoadNames \cup StoreNames ->
            Alu(WrappingAdd(src1, imm), keep, oc /\ AddOverflows(src1, imm))
      [] name = "addi" -> Alu(WrappingAdd(src1, imm), keep, FALSE)
      [] name = "addiw" -> Alu(SExt32(WrappingAdd(src1, imm)), keep, FALSE)
      [] name = "add" ->
            Alu(WrappingAdd(src1, src2), keep, oc /\ AddOverflows(src1, src2))
      [] name = "sub" ->
            Alu(WrappingSub(src1, src2), keep, oc /\ LtU(src1, src2))
      [] name = "addw" -> Alu(SExt32(WrappingAdd(src1, src2)), keep, FALSE)
      [] name = "subw" -> Alu(SExt32(WrappingSub(src1, src2)), keep, FALSE)
      [] name = "slliw" -> Alu(SExt32(Shl32(src1, LowBits(imm, 6))), keep, FALSE)
      [] name = "srliw" -> Alu(ZExt(Shr32(src1, LowBits(imm, 5), 0)), keep, FALSE)
      [] name = "sraiw" ->
            Alu(SExt32(Shr32(src1, LowBits(imm, 5), Bit(src1, 31))), keep, FALSE)
      [] name = "sllw" -> Alu(SExt32(Shl32(src1, LowBits(src2, 5))), keep, FALSE)
      [] name = "srlw" -> Alu(ZExt(Shr32(src1, LowBits(src2, 5), 0)), keep, FALSE)
      [] name = "sraw" ->
            Alu(SExt32(Shr32(src1, LowBits(src2, 5), Bit(src1, 31))), keep, FALSE)
      [] name = "mulw" -> Alu(SExt32(Mul32(src1, src2)), keep, FALSE)
      [] name = "divw" ->
            exec_div(FromI32(TruncDiv(ToI32(src1), ToI32(src2))), src2, keep)
      [] name = "divuw" -> exec_div(DivU32(src1, src2).q, src2, keep)
      [] name = "remw" ->
            exec_div(FromI32(TruncRem(ToI32(src1), ToI32(src2))), src2, keep)
      [] name = "remuw" -> exec_div(DivU32(src1, src2).r, src2, keep)
      [] OTHER -> Alu(Zero64, keep, FALSE)

\* execute_stage after check_inst (i), the match (a) and, for ebreak, the
\* halt trap (h)
execute_out(c, rep, s, i, a, h) ==
    IF i = NoInst
    THEN [panic |-> TRUE, cpu |-> c, report |-> rep, reg |-> EXMEMReg(s.inst)]
    ELSE [panic |-> a.panic,
          cpu |-> IF i.name = "ebreak" THEN h.cpu
                  ELSE [c EXCEPT !.next_pc = a.next_pc],
          report |-> IF i.name = "ebreak" THEN h.report ELSE rep,
          reg |-> [pc |-> s.pc, inst |-> s.inst, rd |-> s.rd,
                   src2 |-> s.src2, alu_out |-> a.alu_out,
                   load |-> s.load, store |-> s.store]]

\* execute_stage with the mnemonic looked up
execute_named(c, rep, s, i, oc) ==
    execute_out(c, rep, s, i,
                exec_alu(s, i.name, s.src1, s.src2, s.imm, c.next_pc, oc),
                halt_trap(c, s.pc, c.reg[10]))

\* execute_stage(cpu, s): the EX/MEM register; cpu.next_pc set by jumps and
\* branches; ebreak calls halt_trap with a0
execute_stage(c, rep, s, oc) ==
    execute_named(c, rep, s, check_inst(s.inst), oc)

\* bytes of the access memory_stage issues for a load or store mnemonic
AccessLen(name) ==
    CASE name \in {"lb", "lbu", "sb"} -> 1
      [] name \in {"lh", "lhu", "sh"} -> 2
      [] name \in {"lw", "lwu", "sw"} -> 4
      [] name \in {"ld", "sd"} -> 8
      [] OTHER -> 0

\* memory_stage after check_inst (i), with the read r or the write w it
\* issues for n bytes, and the halt trap h of an ebreak
memory_out(c, rep, s, m, oc, i, n, r, w, h) ==
    IF i = NoInst
    THEN [panic |-> TRUE, ub |-> FALSE, cpu |-> c, report |-> rep,
          mem |-> m, reg |-> MEMWBReg(s.inst)]
    ELSE [panic |-> (i.name \in LoadNames /\ (~r.ok \/ sext_panics(r.val, 8 * n, oc)))
                    \/ (i.name \in StoreNames /\ ~w.ok),
          ub |-> (i.name \in LoadNames /\ r.ub) \/ (i.name \in StoreNames /\ w.ub),
          cpu |-> IF i.name = "ebreak" THEN h.cpu ELSE c,
          report |-> IF i.name = "ebreak" THEN h.report ELSE rep,
          mem |-> IF i.name \in StoreNames THEN w.mem ELSE m,
          reg |-> [pc |-> s.pc, inst |-> s.inst, rd |-> s.rd,
                   alu_out |-> s.alu_out,
                   mem_data |-> IF i.name \in LoadNames /\ r.ok
                                THEN sext(r.val, 8 * n) ELSE Zero64,
                   load |-> s.load, store |-> s.store]]

\* memory_stage with the mnemonic looked up: unwrap() of an Err panics
memory_named(c, rep, s, m, ub, oc, i, n) ==
    memory_out(c, rep, s, m, oc, i, n,
               IF i.name \in LoadNames THEN mem_read(m, s.alu_out, n, ub)
               ELSE [ok |-> TRUE, err |-> "", val |-> Zero64, ub |-> FALSE],
               IF i.name \in StoreNames THEN mem_write(m, s.alu_out, n, s.src2)
               ELSE [ok |-> TRUE, err |-> "", mem |-> m, ub |-> FALSE],
               halt_trap(c, s.pc, c.reg[10]))

\* the mnemonic and access width memory_stage works with
memory_lookup(c, rep, s, m, ub, oc, i) ==
    memory_named(c, rep, s, m, ub, oc, i, AccessLen(i.name))

\* memory_stage(cpu, s, mem): the MEM/WB register and the memory after it
memory_stage(c, rep, s, m, ub, oc) ==
    memory_lookup(c, rep, s, m, ub, oc, check_inst(s.inst))

\* the register file after the match of writeback_stage, x0 not yet zeroed
writeback_regs(c, s, name) ==
    CASE name \in BranchNames -> c.reg
      [] name \in StoreNames -> c.reg
      [] name \in {"lb", "lh", "lw", "ld", "lbu", "lhu"} ->
            [c.reg EXCEPT ![s.rd] = s.mem_data]
      [] name = "ebreak" -> c.reg
      [] OTHER -> [c.reg EXCEPT ![s.rd] = s.alu_out]

\* the last statement of writeback_stage left out
zero_x0_skipped(regs) == regs

\* the last statement of writeback_stage: cpu.reg[0] = 0
zero_x0(regs) == [regs EXCEPT ![0] = Zero64]

\* writeback_stage after check_inst (i) and, for ebreak, the halt trap (h)
writeback_out(c, rep, s, i, h) ==
    IF i = NoInst
    THEN [panic |-> TRUE, cpu |-> c, report |-> rep]
    ELSE [panic |-> FALSE,
          cpu |-> [(IF i.name = "ebreak" THEN h.cpu ELSE c) EXCEPT
                     !.reg = zero_x0(writeback_regs(c, s, i.name))],
          report |-> IF i.name = "ebreak" THEN h.report ELSE rep]

\* writeback_stage(cpu, s): rd written, then x0 zeroed
writeback_stage(c, rep, s) ==
    writeback_out(c, rep, s, check_inst(s.inst), halt_trap(c, s.pc, c.reg[10]))

-----------------------------------------------------------------------------
(* The pipeline: pipe.rs *)

\* Pipeline::exec_stall
exec_stall(h) ==
    [h EXCEPT !.f_stall = TRUE, !.d_stall = TRUE,
              !.e_reg = IDEXReg(NOP_INST),
              !.data_hazard_count = @ + 1]

\* Pipeline::data_hazard: E and M are the committed ID/EX and EX/MEM, m and w
\* the shadow EX/MEM and MEM/WB of this step
data_hazard(h, E, M, m, w) ==
    LET alu_a == h.e_reg.rs1
        alu_b == h.e_reg.rs2
        dst_e == E.rd
        dst_m == M.rd
        AE == alu_a = dst_e /\ dst_e # 0 /\ E.store = FALSE
        BE == alu_b = dst_e /\ dst_e # 0 /\ E.store = FALSE
        AM == alu_a = dst_m /\ dst_m # 0 /\ M.store = FALSE
        BM == alu_b = dst_m /\ dst_m # 0 /\ M.store = FALSE
        h1 == IF AE
              THEN IF E.load = TRUE THEN exec_stall(h)
                   ELSE [h EXCEPT !.e_reg.src1 = m.alu_out]
              ELSE IF AM
              THEN IF M.load = TRUE THEN [h EXCEPT !.e_reg.src1 = w.mem_data]
                   ELSE [h EXCEPT !.e_reg.src1 = w.alu_out]
              ELSE h
        h2 == IF BE
              THEN IF E.load = TRUE THEN exec_stall(h1)
                   ELSE [h1 EXCEPT !.e_reg.src2 = m.alu_out]
              ELSE IF BM
              THEN IF M.load = TRUE THEN [h1 EXCEPT !.e_reg.src2 = w.mem_data]
                   ELSE [h1 EXCEPT !.e_reg.src2 = w.alu_out]
              ELSE h1
    IN  IF AE \/ BE \/ AM \/ BM THEN h2 ELSE h

\* branch_pred_miss that counts the miss but does not flush
branch_pred_miss_no_flush(h, E, D, next_pc) ==
    IF E.jump /\ next_pc # D.pc
    THEN [h EXCEPT !.d_stall = FALSE, !.f_stall = FALSE,
                   !.pred_pc = next_pc,
                   !.branch_count = @ + 1,
                   !.flush = TRUE]
    ELSE h

\* Pipeline::branch_pred_miss
branch_pred_miss(h, E, D, next_pc) ==
    IF E.jump /\ next_pc # D.pc
    THEN [h EXCEPT !.e_reg = IDEXReg(NOP_INST),
                   !.d_reg = IFIDReg(NOP_INST),
                   !.d_stall = FALSE, !.f_stall = FALSE,
                   !.pred_pc = next_pc,
                   !.branch_count = @ + 1,
                   !.flush = TRUE]
    ELSE h

\* the end of Pipeline::step before the commit, given what print_state
\* fetched (ps), the four stages (wb, ms, ex, de), the fetch (fe) and the
\* shadow state h after data_hazard and branch_pred_miss.
\* died is "alive" unless an expect/unwrap/panic! ("panicked") or a faulting
\* host access ("crashed") ends the process on the way
step_outcome(fault, ps, wb, ms, ex, de, fe, h) ==
    [died |-> CASE ~ps.ok -> "panicked"
                [] ps.ub /\ fault -> "crashed"
                [] wb.panic -> "panicked"
                [] ms.panic -> "panicked"
                [] ms.ub /\ fault -> "crashed"
                [] ex.panic -> "panicked"
                [] de.panic -> "panicked"
                [] ~fe.ok -> "panicked"
                [] fe.ub /\ fault -> "crashed"
                [] OTHER -> "alive",
     printed |-> CASE ~ps.ok \/ (ps.ub /\ fault) \/ wb.panic -> report
                  [] ms.panic \/ (ms.ub /\ fault) -> wb.report
                  [] ex.panic -> ms.report
                  [] OTHER -> ex.report,
     oob |-> (ps.ok /\ ps.ub)
             \/ (~wb.panic /\ ms.ub)
             \/ (~wb.panic /\ ~ms.panic /\ ~ex.panic /\ ~de.panic
                 /\ fe.ok /\ fe.ub),
     cpu |-> ex.cpu, mem |-> ms.mem,
     w_reg |-> ms.reg, m_reg |-> ex.reg, h |-> h]

\* Pipeline::step from the fetch on: d_reg and pred_pc are set, then
\* data_hazard and branch_pred_miss work on the shadow registers
step_hazards(ub, ps, wb, ms, ex, de, fe) ==
    step_outcome(ub = -1, ps, wb, ms, ex, de, fe,
        branch_pred_miss(
            data_hazard([e_reg |-> de.reg,
                         d_reg |-> [pc |-> ex.cpu.pc, inst |-> fe.val],
                         f_stall |-> f_stall, d_stall |-> d_stall,
                         data_hazard_count |-> data_hazard_count,
                         branch_count |-> branch_count,
                         pred_pc |-> WrappingAdd(ex.cpu.pc, Four),
                         flush |-> FALSE],
                        E_reg, M_reg, ex.reg, ms.reg),
            E_reg, D_reg, ex.cpu.next_pc))

\* Pipeline::step from decode_stage on
step_decode(ub, ps, wb, ms, ex) ==
    step_hazards(ub, ps, wb, ms, ex,
                 decode_stage(ex.cpu, D_reg),
                 inst_fetch(ms.mem, ex.cpu.pc, ub))

\* Pipeline::step from execute_stage on
step_execute(ub, ps, wb, ms) ==
    step_decode(ub, ps, wb, ms,
                execute_stage(ms.cpu, ms.report, E_reg, overflow_checks))

\* Pipeline::step from memory_stage on
step_memory(ub, ps, wb) ==
    step_execute(ub, ps, wb,
                 memory_stage(wb.cpu, wb.report, M_reg, mem, ub, overflow_checks))

\* Pipeline::step up to the commit: the cycle is counted, print_state fetches
\* at the PC, then the stages run in the order step calls them
step_result(ub) ==
    step_memory(ub, inst_fetch(mem, cpu.pc, ub),
                writeback_stage([cpu EXCEPT !.cycle_count = @ + 1], report, W_reg))

\* the outcomes to consider for the host accesses of the coming step: all of
\* UbChoices when an access leaves the array, otherwise one (it is not read)
StepUb == IF step_result(0).oob THEN UbChoices ELSE {0}

\* the commit of Pipeline::step: the shadow registers and the PC; a step the
\* process does not survive leaves only what it printed
step_commit(r, h) ==
    IF r.died # "alive"
    THEN /\ proc' = r.died
         /\ report' = r.printed
         /\ UNCHANGED <<mem, pipevars, ev>>
    ELSE /\ proc' = proc
         /\ report' = r.printed
         /\ mem' = r.mem
         /\ W_reg' = r.w_reg
         /\ M_reg' = r.m_reg
         /\ E_reg' = h.e_reg
         /\ D_reg' = IF ~h.d_stall THEN h.d_reg ELSE D_reg
         /\ cpu' = [r.cpu EXCEPT !.pred_pc = h.pred_pc,
                                 !.pc = IF ~h.f_stall THEN h.pred_pc ELSE @]
         /\ w_reg' = r.w_reg
         /\ m_reg' = r.m_reg
         /\ e_reg' = h.e_reg
         /\ d_reg' = h.d_reg
         /\ f_stall' = FALSE
         /\ d_stall' = FALSE
         /\ branch_count' = h.branch_count
         /\ data_hazard_count' = h.data_hazard_count
         /\ ev' = [stall |-> h.d_stall /\ h.f_stall,
                   flush |-> h.flush,
                   n_stall |-> ev.n_stall + (IF h.d_stall /\ h.f_stall THEN 1 ELSE 0),
                   n_flush |-> ev.n_flush + (IF h.flush THEN 1 ELSE 0),
                   wb |-> W_reg]

\* the step with its result named
step_of(r) == step_commit(r, r.h)

\* Pipeline::step
step(ub) == step_of(step_result(ub))

-----------------------------------------------------------------------------
(* Loaded images *)

\* the instructions an image is built from
Alphabet ==
    { Word(0, 0, 0, 0, 6, 23),      \* auipc x6, 0
      Word(0, 0, 6, 2, 5, 3),       \* lw    x5, 0(x6)
      Word(0, 0, 6, 6, 5, 3),       \* lwu   x5, 0(x6)
      Word(0, 5, 5, 0, 7, 51),      \* add   x7, x5, x5
      Word(0, 8, 0, 0, 0, 111),     \* jal   x0, 8
      Word(127, 0, 5, 1, 25, 99) }  \* bne   x5, x0, -8

\* an image: ProgLen instructions, ebreak, PadLen NOPs
Images ==
    { p \o <<EBREAK_INST>> \o [k \in 1..PadLen |-> NOP_INST] :
        p \in [1..ProgLen -> Alphabet] }

\* Memory::new then load_image: the image at offset 0, zeros after it
load_image(img) ==
    [o \in 0..(MEM_SIZE - 1) |->
        IF o < 4 * Len(img) THEN img[(o \div 4) + 1][(o % 4) + 1] ELSE 0]

-----------------------------------------------------------------------------
(* The debugger shell: gui.rs *)

\* iterations of the loop of the 'c' command
CLoopLimit == 100000

\* no step completed yet
NoEv ==
    [stall |-> FALSE, flush |-> FALSE, n_stall |-> 0, n_flush |-> 0,
     wb |-> MEMWBReg(NOP_INST)]

NoRet ==
    [op |-> "none", addr |-> Zero64, len |-> 0, data |-> Zero64,
     ok |-> FALSE, err |-> "", val |-> Zero64]

\* the compiler has not been run
NoComp == [phase |-> "none"]

\* Pipeline::new followed by Pipeline::init
PipelineInit ==
    /\ cpu = [CPUState_new EXCEPT !.running = TRUE]
    /\ D_reg = IFIDReg(NOP_INST)
    /\ E_reg = IDEXReg(NOP_INST)
    /\ M_reg = EXMEMReg(NOP_INST)
    /\ W_reg = MEMWBReg(NOP_INST)
    /\ d_reg = IFIDReg(<<0, 0, 0, 0>>)
    /\ e_reg = IDEXReg(<<0, 0, 0, 0>>)
    /\ m_reg = EXMEMReg(<<0, 0, 0, 0>>)
    /\ w_reg = MEMWBReg(<<0, 0, 0, 0>>)
    /\ f_stall = FALSE
    /\ d_stall = FALSE
    /\ branch_count = 0
    /\ data_hazard_count = 0

\* GuiApp::default: a loaded image, an initialised pipeline, no command yet
Init ==
    /\ \E img \in Images : mem = load_image(img)
    /\ PipelineInit
    /\ overflow_checks \in BOOLEAN
    /\ proc = "alive"
    /\ report = NoReport
    /\ cmd = "idle"
    /\ left = 0
    /\ step_counter = 0
    /\ ev = NoEv
    /\ mret = NoRet
    /\ mops = 0
    /\ comp = NoComp

\* execute_command, "c": enter the loop of at most CLoopLimit steps
ExecC ==
    /\ proc = "alive" /\ cmd = "idle"
    /\ cmd' = "c"
    /\ left' = CLoopLimit
    /\ UNCHANGED <<mem, pipevars, overflow_checks, proc, report, step_counter,
                   ev, mret, mops, comp>>

\* execute_command, "si N": enter the loop of N steps
ExecSi ==
    /\ proc = "alive" /\ cmd = "idle"
    /\ \E n \in 1..MaxSi : left' = n
    /\ cmd' = "si"
    /\ UNCHANGED <<mem, pipevars, overflow_checks, proc, report, step_counter,
                   ev, mret, mops, comp>>

\* execute_command, "q": clear running and exit the process
ExecQ ==
    /\ proc = "alive" /\ cmd = "idle"
    /\ cpu' = [cpu EXCEPT !.running = FALSE]
    /\ proc' = "exited"
    /\ UNCHANGED <<mem, D_reg, E_reg, M_reg, W_reg, d_reg, e_reg, m_reg, w_reg,
                   f_stall, d_stall, branch_count, data_hazard_count,
                   overflow_checks, report, cmd, left, step_counter, ev, mret, mops,
                   comp>>

\* one iteration of the loop of "c" or "si" that passes `if !running { break }`:
\* Pipeline::step, then step_counter += 1
LoopStep ==
    /\ proc = "alive" /\ cmd \in {"c", "si"}
    /\ left > 0 /\ cpu.running
    /\ cpu.cycle_count < MaxCycles
    /\ \E ub \in StepUb : step(ub)
    /\ left' = left - 1
    /\ step_counter' = IF proc' = "alive" THEN step_counter + 1 ELSE step_counter
    /\ UNCHANGED <<overflow_checks, cmd, mret, mops, comp>>

\* the loop of "c" or "si" ends: its range is exhausted or running is false
LoopExit ==
    /\ proc = "alive" /\ cmd \in {"c", "si"}
    /\ (left = 0 \/ ~cpu.running)
    /\ cmd' = "idle"
    /\ left' = 0
    /\ UNCHANGED <<mem, pipevars, overflow_checks, proc, report, step_counter,
                   ev, mret, mops, comp>>

Next == ExecC \/ ExecSi \/ ExecQ \/ LoopStep \/ LoopExit

Spec == Init /\ [][Next]_vars

-----------------------------------------------------------------------------
(* Direct calls of the memory interface, as test_memory_rw makes them *)

MemAddrs ==
    { Zero64,
      WrappingSub(MEM_BASE, FromInt(1)),
      MEM_BASE,
      WrappingAdd(MEM_BASE, FromInt(1)),
      WrappingSub(MEM_END, FromInt(1)),
      MEM_END }

MemLens == {0, 1, 2, 3, 4, 8}

MemData ==
    { <<239, 205, 171, 137, 103, 69, 35, 1>>,      \* 0x0123456789ABCDEF
      <<239, 190, 173, 222, 0, 0, 0, 0>> }         \* 0xDEADBEEF

\* Memory::new with nothing loaded, and a pipeline that is never stepped
MemInit ==
    /\ mem = [o \in 0..(MEM_SIZE - 1) |-> 0]
    /\ PipelineInit
    /\ overflow_checks \in BOOLEAN
    /\ proc = "alive"
    /\ report = NoReport
    /\ cmd = "idle"
    /\ left = 0
    /\ step_counter = 0
    /\ ev = NoEv
    /\ mret = NoRet
    /\ mops = 0
    /\ comp = NoComp

MemFrame ==
    UNCHANGED <<pipevars, overflow_checks, report, cmd, left, step_counter, ev, comp>>

\* mem.mem_write(addr, len, data)
DoWrite ==
    /\ proc = "alive" /\ mops < MaxMemOps
    /\ \E a \in MemAddrs, n \in MemLens, d \in MemData, ub \in UbChoices :
         LET r == mem_write(mem, a, n, d) IN
         /\ mem' = r.mem
         /\ mret' = [op |-> "write", addr |-> a, len |-> n, data |-> d,
                     ok |-> r.ok, err |-> r.err, val |-> Zero64]
         /\ proc' = IF r.ub /\ ub = -1 THEN "crashed" ELSE proc
    /\ mops' = mops + 1
    /\ MemFrame

\* mem.mem_read(addr, len)
DoRead ==
    /\ proc = "alive" /\ mops < MaxMemOps
    /\ \E a \in MemAddrs, n \in MemLens, ub \in UbChoices :
         LET r == mem_read(mem, a, n, ub) IN
         /\ mret' = [op |-> "read", addr |-> a, len |-> n, data |-> Zero64,
                     ok |-> r.ok, err |-> r.err,
                     val |-> IF r.ub /\ ub = -1 THEN Zero64 ELSE r.val]
         /\ proc' = IF r.ub /\ ub = -1 THEN "crashed" ELSE proc
    /\ mem' = mem
    /\ mops' = mops + 1
    /\ MemFrame

\* mem.inst_fetch(pc)
DoFetch ==
    /\ proc = "alive" /\ mops < MaxMemOps
    /\ \E a \in MemAddrs, ub \in UbChoices :
         LET r == inst_fetch(mem, a, ub) IN
         /\ mret' = [op |-> "fetch", addr |-> a, len |-> 4, data |-> Zero64,
                     ok |-> r.ok, err |-> r.err,
                     val |-> IF r.ub /\ ub = -1 THEN Zero64 ELSE ZExt(r.val)]
         /\ proc' = IF r.ub /\ ub = -1 THEN "crashed" ELSE proc
    /\ mem' = mem
    /\ mops' = mops + 1
    /\ MemFrame

\* the sizes of the segments tried
ElfSizes == {0, 1, 4, 8, MEM_SIZE, MEM_SIZE + 1}

\* Memory::load_elf on a file of one segment with address a, size n and the
\* bytes of d repeated as data: what it returns (ok), whether it panics, and
\* the memory after it.  `segment.address() - MEM_BASE` panics below MEM_BASE
\* when overflow checks are on and wraps to an offset beyond the array
\* otherwise, where the slice index panics
load_elf(m, a, n, d, oc) ==
    IF a = Zero64 THEN [ok |-> TRUE, panic |-> FALSE, mem |-> m]
    ELSE IF LtU(a, MEM_BASE) /\ oc THEN [ok |-> FALSE, panic |-> TRUE, mem |-> m]
    ELSE IF n > MEM_SIZE THEN [ok |-> FALSE, panic |-> FALSE, mem |-> m]
    ELSE IF LtU(a, MEM_BASE) \/ ToInt(WrappingSub(a, MEM_BASE)) + n > MEM_SIZE
    THEN [ok |-> FALSE, panic |-> TRUE, mem |-> m]
    ELSE [ok |-> TRUE, panic |-> FALSE,
          mem |-> [o \in 0..(MEM_SIZE - 1) |->
                     LET k == o - ToInt(WrappingSub(a, MEM_BASE)) IN
                     IF k >= 0 /\ k < n THEN d[(k % 8) + 1] ELSE m[o]]]

\* mem.load_elf(path)
DoLoadElf ==
    /\ proc = "alive" /\ mops < MaxMemOps
    /\ \E a \in MemAddrs, n \in ElfSizes, d \in MemData :
         LET r == load_elf(mem, a, n, d, overflow_checks) IN
         /\ mem' = r.mem
         /\ mret' = [op |-> "elf", addr |-> a, len |-> n, data |-> d,
                     ok |-> r.ok, err |-> IF r.ok \/ r.panic THEN "" ELSE "Segment",
                     val |-> Zero64]
         /\ proc' = IF r.panic THEN "panicked" ELSE proc
    /\ mops' = mops + 1
    /\ MemFrame

MemNext == DoWrite \/ DoRead \/ DoFetch \/ DoLoadElf

MemSpec == MemInit /\ [][MemNext]_vars

-----------------------------------------------------------------------------
(* Vocabulary of the properties *)

\* the mnemonic of a word ("" when no row matches)
NameOf(inst) == check_inst(inst).name

IsLoad(inst) == NameOf(inst) \in LoadNames

IsStore(inst) == NameOf(inst) \in StoreNames

IsJump(inst) == NameOf(inst) \in {"jal", "jalr"} \cup BranchNames

\* the registers an instruction reads: rs1 for the formats I, S, B, R and
\* rs2 for the formats S, B, R
SrcRegs(inst) ==
    (IF check_inst(inst).ty \in {"I", "S", "B", "R"}
     THEN {Bits(inst, 19, 15)} ELSE {})
    \cup (IF check_inst(inst).ty \in {"S", "B", "R"}
          THEN {Bits(inst, 24, 20)} ELSE {})

\* the address lies outside [MEM_BASE, MEM_BASE + MEM_SIZE)
OutOfGuest(a) == LtU(a, MEM_BASE) \/ ~LtU(a, MEM_END)

\* the guest address of the byte at offset o of the array
GuestAddr(o) == WrappingAdd(MEM_BASE, FromInt(o))

\* the guest byte of memory m at address a, -1 where guest memory has none
ByteAt(m, a) ==
    IF \E o \in 0..(MEM_SIZE - 1) : GuestAddr(o) = a
    THEN m[CHOOSE o \in 0..(MEM_SIZE - 1) : GuestAddr(o) = a]
    ELSE -1

\* this transition is an iteration of the loop of 'c' or 'si': a step is tried
StepTried == cmd' = cmd /\ left' = left - 1

\* this transition is a Pipeline::step that ran to its end
StepDone == cpu'.cycle_count = cpu.cycle_count + 1

\* the instruction in execute is a load whose non-zero rd is a source
\* register of the instruction in decode
LoadUse ==
    /\ IsLoad(E_reg.inst)
    /\ E_reg.rd # 0
    /\ E_reg.rd \in SrcRegs(D_reg.inst)

\* the instruction in execute is a jump or branch whose computed next PC
\* differs from the PC of IF/ID
Mispredicted == IsJump(E_reg.inst) /\ cpu'.next_pc # D_reg.pc

-----------------------------------------------------------------------------
(* Properties of the pipeline *)

\* C1: at the end of every step from Pipeline::init x0 reads 0, whatever the
\* instruction in writeback wrote, an instruction with rd = 0 included.
C1_X0IsZero == cpu.reg[0] = Zero64

\* C1 witness: the last step wrote back a jal with rd = 0 whose link value
\* is not zero, and x0 reads 0.
C1_Witness ==
    /\ cpu.cycle_count > 0
    /\ NameOf(ev.wb.inst) = "jal"
    /\ ev.wb.rd = 0
    /\ ev.wb.alu_out # Zero64
    /\ cpu.reg[0] = Zero64

\* C2: in a step with a load in execute whose non-zero rd is a source of the
\* instruction in decode, ID/EX receives a NOP while the PC and IF/ID keep
\* their values; the step after a stall moves the held instruction into ID/EX
\* and does not stall again.
C2_OneBubble ==
    [][/\ (StepDone /\ LoadUse) =>
            /\ E_reg' = IDEXReg(NOP_INST)
            /\ cpu'.pc = cpu.pc
            /\ D_reg' = D_reg
       /\ (StepDone /\ ev.stall) =>
            /\ E_reg'.inst = D_reg.inst
            /\ ~ev'.stall]_vars

\* C3: a step with a load-use stall adds exactly 1 to the data-hazard
\* counter, and every other step leaves the counter unchanged.
C3_StallCount ==
    [][StepDone =>
        data_hazard_count' = data_hazard_count + (IF ev'.stall THEN 1 ELSE 0)]_vars

Forwarded(r, got) ==
    IF r = 0 THEN got = Zero64
    ELSE IF E_reg.rd = r /\ ~IsStore(E_reg.inst)
    THEN IsLoad(E_reg.inst) \/ got = M_reg'.alu_out
    ELSE IF M_reg.rd = r /\ ~IsStore(M_reg.inst)
    THEN got = (IF IsLoad(M_reg.inst) THEN W_reg'.mem_data ELSE W_reg'.alu_out)
    ELSE TRUE

\* C5: in a step that moves the instruction in decode into ID/EX, each source
\* operand whose register is the non-zero rd of a non-store instruction one
\* stage ahead (execute, not a load) or two stages ahead (memory) is the
\* producer's result: its ALU output, or the loaded data when the producer
\* two stages ahead is a load; the execute-stage producer wins when both
\* match, and x0 is never forwarded.
C5_Forwarding ==
    [][(StepDone /\ ~ev'.stall /\ ~ev'.flush) =>
        /\ check_inst(D_reg.inst).ty \in {"I", "S", "B", "R"} =>
              Forwarded(Bits(D_reg.inst, 19, 15), E_reg'.src1)
        /\ check_inst(D_reg.inst).ty \in {"S", "B", "R"} =>
              Forwarded(Bits(D_reg.inst, 24, 20), E_reg'.src2)]_vars

\* C6: the counters the halt trap reports are the actual totals: the
\* retired-instruction count is positive, and the data-hazard and
\* branch-misprediction counts are the numbers of stalls and flushes since
\* init.
C6_Counters ==
    report.counters =>
        /\ report.inst_count > 0
        /\ report.data_hazard = ev.n_stall
        /\ report.branch = ev.n_flush

\* C7: the step in which ebreak is in execute clears running; with running
\* clear the loops of 'c' and 'si N' take no step, and running stays clear.
C7_HaltSticks ==
    [][/\ (StepDone /\ E_reg.inst = EBREAK_INST) => ~cpu'.running
       /\ ~cpu.running =>
            /\ ~cpu'.running
            /\ cpu'.cycle_count = cpu.cycle_count
            /\ step_counter' = step_counter]_vars

\* C7 witness: after the good trap of an ebreak the command 'c' has been
\* entered, and its loop has taken no step.
C7_Witness ==
    /\ proc = "alive"
    /\ report.trap = "good"
    /\ ~cpu.running
    /\ cmd = "c"
    /\ left = CLoopLimit

\* C8: a step whose load or store addresses memory outside the guest range,
\* or whose fetch does, leaves the simulator alive with running cleared.
C8_MemErrorSurfaced ==
    [][(/\ StepTried
        /\ \/ OutOfGuest(cpu.pc)
           \/ (IsLoad(M_reg.inst) \/ IsStore(M_reg.inst)) /\ OutOfGuest(M_reg.alu_out))
       => (proc' = "alive" /\ ~cpu'.running)]_vars

-----------------------------------------------------------------------------
(* Properties of the memory interface *)

\* C9: mem_read and mem_write return an error for every address below
\* MEM_BASE or at or above MEM_BASE + MEM_SIZE and for every width other than
\* 1, 2, 4, 8, and then no guest byte changes.
C9_Rejects ==
    [][(/\ mops' = mops + 1
        /\ mret'.op \in {"read", "write"}
        /\ OutOfGuest(mret'.addr) \/ mret'.len \notin {1, 2, 4, 8})
       => (~mret'.ok /\ mret'.err # "" /\ mem' = mem /\ proc' = "alive")]_vars

\* C9 witness: a write of a valid width at MEM_BASE + MEM_SIZE was refused.
C9_Witness ==
    /\ mret.op = "write"
    /\ mret.addr = MEM_END
    /\ mret.len = 8
    /\ ~mret.ok
    /\ mret.err = "InvalidAddress"

\* C10: for every accepted address a and width w in {1, 2, 4, 8}, a
\* mem_write(a, w, d) changes no byte outside [a, a + w), a mem_read(a, w)
\* that follows it returns d truncated to w bytes, and inst_fetch(a) returns
\* the little-endian word of the four bytes at a.
C10_RoundTrip ==
    [][mops' = mops + 1 =>
        /\ (mret'.op = "write" /\ mret'.ok) =>
              /\ proc' = "alive"
              /\ \A o \in 0..(MEM_SIZE - 1) :
                    (\A k \in 0..(mret'.len - 1) :
                        GuestAddr(o) # WrappingAdd(mret'.addr, FromInt(k)))
                    => mem'[o] = mem[o]
        /\ (/\ mret.op = "write" /\ mret.ok
            /\ mret'.op = "read"
            /\ mret'.addr = mret.addr /\ mret'.len = mret.len) =>
              /\ proc' = "alive"
              /\ mret'.ok
              /\ mret'.val = ZExt(Trunc(mret.data, mret.len))
        /\ (mret'.op = "fetch" /\ mret'.ok) =>
              /\ proc' = "alive"
              /\ mret'.val = [i \in 1..8 |->
                    IF i <= 4
                    THEN ByteAt(mem, WrappingAdd(mret'.addr, FromInt(i - 1)))
                    ELSE 0]]_vars

-----------------------------------------------------------------------------
(* The IR generator, statements: irgen/generate.rs, env.rs, loopstack.rs,
   scope.rs, opt.rs.  A basic block is named by the value of block_count at
   its creation; the entry block of the function is block 0. *)

\* nesting depth of the statements of a function body
StmtDepth == 3

\* the simulator stands idle while the compiler runs
SimIdle ==
    /\ mem = [o \in 0..(MEM_SIZE - 1) |-> 0]
    /\ PipelineInit
    /\ proc = "alive"
    /\ report = NoReport
    /\ cmd = "idle"
    /\ left = 0
    /\ step_counter = 0
    /\ ev = NoEv
    /\ mret = NoRet
    /\ mops = 0

SimFrame ==
    UNCHANGED <<mem, pipevars, overflow_checks, proc, report, cmd, left,
                step_counter, ev, mret, mops>>

\* Stmt::Exp, Stmt::Return, Stmt::Break, Stmt::Continue
LeafStmts == {[k |-> "exp"], [k |-> "ret"], [k |-> "brk"], [k |-> "cont"]}

\* statements nested to depth d: If without and with else, While, and Block
\* of two items, around a statement of depth d - 1
RECURSIVE Stmts(_)
Stmts(d) ==
    IF d = 0 THEN LeafStmts
    ELSE LeafStmts
         \cup {[k |-> "if", s |-> s] : s \in Stmts(d - 1)}
         \cup {[k |-> "ifelse", s |-> s, e |-> t] : s \in Stmts(d - 1), t \in LeafStmts}
         \cup {[k |-> "while", s |-> s] : s \in Stmts(d - 1)}
         \cup {[k |-> "block", items |-> <<s, t>>] : s \in Stmts(d - 1), t \in LeafStmts}

\* break and continue stand inside a while
RECURSIVE InLoopOnly(_, _)
InLoopOnly(s, in) ==
    CASE s.k \in {"brk", "cont"} -> in
      [] s.k = "if" -> InLoopOnly(s.s, in)
      [] s.k = "ifelse" -> InLoopOnly(s.s, in) /\ InLoopOnly(s.e, in)
      [] s.k = "while" -> InLoopOnly(s.s, TRUE)
      [] s.k = "block" -> \A i \in 1..Len(s.items) : InLoopOnly(s.items[i], in)
      [] OTHER -> TRUE

\* the bodies of the functions that are lowered: a Block of one statement
FuncBodies ==
    {[k |-> "block", items |-> <<s>>] : s \in {t \in Stmts(StmtDepth) : InLoopOnly(t, FALSE)}}

\* Env::default inside FuncDef::generate: the function has no block yet.
\* whiles and jumps record, per statement (named by its path in the body),
\* what While::generate and Stmt::generate did; blocks records the scope
\* depth around every Block::generate; low is the smallest scope depth seen
Env_default ==
    [layout |-> <<>>, insts |-> <<>>, block |-> 0, block_count |-> 0,
     loopstack |-> <<>>, scopes |-> <<>>, low |-> 0,
     whiles |-> <<>>, jumps |-> <<>>, blocks |-> <<>>]

\* Context::create_block: the new block is appended to the layout
create_block(env) ==
    [env EXCEPT !.layout = Append(@, env.block_count),
                !.insts = Append(@, <<>>),
                !.block_count = @ + 1]

\* Context::remove_bb
remove_bb(env, bb) ==
    [env EXCEPT !.layout = SelectSeq(@, LAMBDA b : b # bb)]

\* insert_inst_into_bb!: push at the back of the current block
push_inst(env, inst) ==
    [env EXCEPT !.insts[env.block + 1] = Append(@, inst)]

\* Env::jump_inst
jump_inst(env, bb) == push_inst(env, [op |-> "jump", to |-> bb])

\* Env::branch_inst
branch_inst(env, then_bb, else_bb) ==
    push_inst(env, [op |-> "br", to |-> then_bb, or |-> else_bb])

\* Env::ret_inst, Env::ret_void_inst
ret_inst(env) == push_inst(env, [op |-> "ret"])

\* the instructions an Exp or a condition leaves in the current block
exp_generate(env) == push_inst(env, [op |-> "val"])

\* env.ctx.block = Some(bb)
set_block(env, bb) == [env EXCEPT !.block = bb]

\* LoopStack::push
LoopStack_push(ls, entry, exit) == Append(ls, <<entry, exit>>)

\* LoopStack::top
LoopStack_top(ls) == ls[Len(ls)]

\* a pop that leaves the stack as it is
LoopStack_pop_skipped(ls) == ls

\* LoopStack::pop
LoopStack_pop(ls) == SubSeq(ls, 1, Len(ls) - 1)

\* a frame of the scope stack: no name bound
EmptyFrame == [n \in {} |-> 0]

\* Scope::enter_scope
enter_scope(scopes) == Append(scopes, EmptyFrame)

\* an exit that pops nothing
exit_scope_skipped(scopes) == scopes

\* Scope::exit_scope: Vec::pop, which leaves an empty stack empty
exit_scope(scopes) ==
    IF Len(scopes) = 0 THEN scopes ELSE SubSeq(scopes, 1, Len(scopes) - 1)

\* env.scope.enter_scope()
env_enter_scope(env) == [env EXCEPT !.scopes = enter_scope(@)]

\* env.scope.exit_scope(), the depth it leaves noted
env_exit_scope(env) ==
    [env EXCEPT !.scopes = exit_scope(@),
                !.low = Min(@, Len(exit_scope(env.scopes)))]

\* a terminator of Koopa IR: Return, Jump, Branch
IsTerminator(inst) == inst.op \in {"ret", "jump", "br"}

\* the result of a generate: the Env and the CFType
Gen(env, cf) == [env |-> env, cf |-> cf]

RECURSIVE Stmt_generate(_, _, _)
RECURSIVE Block_items(_, _, _, _)
RECURSIVE Block_next(_, _, _, _)
RECURSIVE Block_generate(_, _, _)
RECURSIVE While_generate(_, _, _)
RECURSIVE If_generate(_, _, _)
RECURSIVE If_then_done(_, _, _, _)
RECURSIVE If_else(_, _, _, _)

\* Stmt::Break, Stmt::Continue: the jump to the block taken from the top of
\* the loop stack, noted under the path of the statement
jump_out(env, p, target) ==
    [jump_inst(env, target) EXCEPT !.jumps = Append(@, [path |-> p, to |-> target])]

\* Stmt::generate
Stmt_generate(s, env, p) ==
    CASE s.k = "exp" -> Gen(exp_generate(env), "Ok")
      [] s.k = "block" -> Block_generate(s, env, p)
      [] s.k = "ret" -> Gen(ret_inst(exp_generate(env)), "Return")
      [] s.k \in {"if", "ifelse"} -> If_generate(s, env, p)
      [] s.k = "while" -> While_generate(s, env, p)
      [] s.k = "brk" ->
            Gen(jump_out(env, p, LoopStack_top(env.loopstack)[2]), "Break")
      [] s.k = "cont" ->
            Gen(jump_out(env, p, LoopStack_top(env.loopstack)[1]), "Continue")

\* Block::generate, the loop over the items: the first Err ends it
Block_items(items, i, env, p) ==
    IF i > Len(items) THEN Gen(env, "Ok")
    ELSE Block_next(items, i, p, Stmt_generate(items[i], env, Append(p, i)))

\* Block::generate, the match on the result r of item i
Block_next(items, i, p, r) ==
    IF r.cf = "Ok" THEN Block_items(items, i + 1, r.env, p) ELSE r

\* Block::generate, the exit_scope on either way out; the scope depth before
\* and after the block is noted under the path of the block
Block_exit(p, before, env, cf) ==
    Gen([env EXCEPT !.blocks = Append(@, [path |-> p, before |-> before,
                                          after |-> Len(env.scopes)])],
        cf)

\* Block::generate, the result r of the items in hand
Block_leave(p, before, r) == Block_exit(p, before, env_exit_scope(r.env), r.cf)

\* Block::generate
Block_generate(s, env, p) ==
    Block_leave(p, Len(env.scopes), Block_items(s.items, 1, env_enter_scope(env), p))

\* While::generate up to the body: three blocks, the push on the loop stack,
\* the jump to cond, the condition and its branch; c is the cond block
While_start(env, c) ==
    set_block(
        branch_inst(
            exp_generate(
                set_block(
                    jump_inst(
                        [create_block(create_block(create_block(env)))
                            EXCEPT !.loopstack = LoopStack_push(@, c, c + 2)],
                        c),
                    c)),
            c + 1, c + 2),
        c + 1)

\* While::generate after the body: the end block becomes current and the
\* loop stack is popped; the blocks of the loop and the loop stack before
\* and after are noted under the path of the while
While_done(p, c, before, env) ==
    [env EXCEPT !.block = c + 2,
                !.loopstack = LoopStack_pop(@),
                !.whiles = Append(@, [path |-> p, cond |-> c, end |-> c + 2,
                                      before |-> before,
                                      after |-> LoopStack_pop(env.loopstack)])]

\* While::generate, the match on the result r of the body
While_end(p, c, before, r) ==
    Gen(While_done(p, c, before,
                   IF r.cf = "Ok" THEN jump_inst(r.env, c) ELSE r.env),
        "Ok")

\* While::generate
While_generate(s, env, p) ==
    While_end(p, env.block_count, env.loopstack,
              Stmt_generate(s.s, While_start(env, env.block_count), Append(p, 1)))

\* If::generate up to the then part: four blocks, the jump to cond, the
\* condition and its branch; c is the cond block
If_start(env, c, has_else) ==
    set_block(
        branch_inst(
            exp_generate(
                set_block(
                    jump_inst(
                        create_block(create_block(create_block(create_block(env)))),
                        c),
                    c)),
            c + 1, IF has_else THEN c + 2 ELSE c + 3),
        c + 1)

\* If::generate, the end of an arm with result r: the jump to the end block
\* unless the arm diverged
If_arm_end(c, r) == IF r.cf = "Ok" THEN jump_inst(r.env, c + 3) ELSE r.env

\* If::generate, the else part and the end part
If_then_done(s, p, c, env) ==
    IF s.k = "ifelse"
    THEN Gen(set_block(
                If_arm_end(c, Stmt_generate(s.e, set_block(env, c + 2), Append(p, 2))),
                c + 3),
             "Ok")
    ELSE Gen(set_block(remove_bb(env, c + 2), c + 3), "Ok")

\* If::generate, the match on the result r of the then part
If_else(s, p, c, r) == If_then_done(s, p, c, If_arm_end(c, r))

\* If::generate
If_generate(s, env, p) ==
    If_else(s, p, env.block_count,
            Stmt_generate(s.s, If_start(env, env.block_count, s.k = "ifelse"),
                          Append(p, 1)))

\* a block that check_ir has to end: it is empty or its last instruction is
\* no terminator
NeedsReturn(insts) == Len(insts) = 0 \/ ~IsTerminator(insts[Len(insts)])

\* a fixup pass that appends nothing
check_ir_skipped(env) == env

\* opt::check_ir, the blocks of the layout that do not end in a terminator
err_bbs(env) == SelectSeq(env.layout, LAMBDA b : NeedsReturn(env.insts[b + 1]))

\* opt::check_ir, the loop over err_bbs: each becomes the current block and
\* gets a return
check_ir_each(env, errs) ==
    [env EXCEPT !.block = IF errs = <<>> THEN @ ELSE errs[Len(errs)],
                !.insts = [b \in DOMAIN @ |->
                              IF \E i \in 1..Len(errs) : errs[i] = b - 1
                              THEN Append(@[b], [op |-> "ret"]) ELSE @[b]]]

\* opt::check_ir: a return is appended to every block of the layout that
\* does not end in a terminator
check_ir(env) == check_ir_each(env, err_bbs(env))

\* FuncDef::generate for a function without parameters: the entry block, the
\* function scope, the body, check_ir
FuncDef_generate(body, env) ==
    env_exit_scope(
        check_ir(
            Block_generate(body,
                           env_enter_scope(set_block(create_block(env), env.block_count)),
                           <<>>).env))

\* CompUnit::generate for a unit of one function: the global scope around it
CompUnit_generate(body) ==
    FuncDef_generate(body, [Env_default EXCEPT !.scopes = enter_scope(@), !.low = 1])

\* a compilation unit waits to be lowered
LowerInit ==
    /\ \E b \in FuncBodies : comp = [phase |-> "parsed", body |-> b]
    /\ overflow_checks = FALSE
    /\ SimIdle

\* build_ir: the unit is lowered, its global scope left at the end
Lower ==
    /\ comp.phase = "parsed"
    /\ comp' = [phase |-> "lowered", body |-> comp.body,
                env |-> CompUnit_generate(comp.body),
                scopes |-> exit_scope(CompUnit_generate(comp.body).scopes)]
    /\ SimFrame

LowerNext == Lower

LowerSpec == LowerInit /\ [][LowerNext]_vars

\* ---- vocabulary of the lowered function ----

\* the unit has been lowered
Lowered == comp.phase = "lowered"

\* the blocks in the layout of the lowered function
LayoutBlocks == {comp.env.layout[i] : i \in 1..Len(comp.env.layout)}

\* the instructions of block b
InstsOf(b) == comp.env.insts[b + 1]

\* block b ends in a terminator and holds none before its end
WellTerminated(insts) ==
    /\ Len(insts) > 0
    /\ \A i \in 1..Len(insts) : IsTerminator(insts[i]) <=> i = Len(insts)

\* C11: after lowering and the fixup pass every basic block of the function
\* ends in exactly one terminator and has no terminator before its last
\* instruction, whatever the nesting of if, if-else, while, break, continue
\* and return
C11_Terminated == Lowered => \A b \in LayoutBlocks : WellTerminated(InstsOf(b))

\* a lowered function with a loop, a break or continue, and a block that the
\* fixup pass alone has ended
C11_Witness ==
    /\ Lowered
    /\ Len(comp.env.whiles) > 0
    /\ Len(comp.env.jumps) > 0
    /\ \E b \in LayoutBlocks : InstsOf(b) = <<[op |-> "ret"]>>

\* ---- The IR generator, array initializers (irgen/array.rs) ----

\* the initializers tried have at most InitSize nodes, the arrays at most
\* MaxRank dimensions of at most MaxDim elements
InitSize == 6
MaxRank == 2
MaxDim == 3

RECURSIVE InitTrees(_)
RECURSIVE InitForests(_)

\* InitVal with exactly n nodes: an expression, or a brace list of InitVal
InitTrees(n) ==
    IF n = 1 THEN {[k |-> "exp"], [k |-> "list", items |-> <<>>]}
    ELSE {[k |-> "list", items |-> f] : f \in InitForests(n - 1)}

\* the item lists with n nodes in all
InitForests(n) ==
    IF n = 0 THEN {<<>>}
    ELSE UNION {{<<t>> \o f : t \in InitTrees(m), f \in InitForests(n - m)} : m \in 1..n}

InitVals == UNION {InitTrees(n) : n \in 1..InitSize}

\* the dimension lists of a declared array
DimLists == UNION {[1..r -> 1..MaxDim] : r \in 1..MaxRank}

RECURSIVE find_align_from(_, _, _, _)
\* find_align, the loop over the dimensions from the last one
find_align_from(dims, i, len, align) ==
    IF i = 0 THEN align
    ELSE IF len % dims[i] = 0
         THEN find_align_from(dims, i - 1, len \div dims[i], align + 1)
         ELSE align

\* an expander that takes the alignment of a brace from its offset alone
find_align_unlimited(dims, len, limit) == find_align_from(dims, Len(dims), len, 0)

\* find_align
find_align(dims, len, limit) == Min(find_align_from(dims, Len(dims), len, 0), limit - 1)

RECURSIVE take_product(_, _, _)
\* the fold over dims.iter().rev().take(n): the product of the last n
\* dimensions, i the first of them
take_product(dims, i, acc) ==
    IF i > Len(dims) THEN acc ELSE take_product(dims, i + 1, acc * dims[i])

\* total_len of a brace list: align as usize takes every dimension when
\* align is negative
total_len_of(dims, align) ==
    take_product(dims, IF align < 0 THEN 1 ELSE Max(Len(dims) - align, 0) + 1, 1)

\* a value of the flat list: the value of the expression that stands at
\* place p of the initializer, or a zero pushed by the brace list at place p
InitElem(v, p) == [v |-> v, by |-> p]

\* the zeros pushed after the items of the brace list at place p, and its
\* length
var_pad(total_len, r, p) ==
    [len |-> total_len,
     vec |-> r.vec \o [j \in 1..Max(total_len - r.len, 0) |-> InitElem("zero", p)]]

RECURSIVE var_cur(_, _, _, _, _, _)
RECURSIVE var_list(_, _, _, _, _, _, _)
RECURSIVE var_list_next(_, _, _, _, _, _, _)
RECURSIVE var_brace(_, _, _, _, _)

\* local_var_cur, global_var_cur: the flat list vec grows by the elements of
\* init_val, which stands at place p; the length counted for it is returned
var_cur(dims, init_val, pre_len, limit, vec, p) ==
    IF init_val.k = "exp"
    THEN [len |-> 1, vec |-> Append(vec, InitElem("exp", p))]
    ELSE var_brace(dims, init_val, find_align(dims, pre_len, limit), vec, p)

\* the InitList arm, its alignment in hand
var_brace(dims, init_val, align, vec, p) ==
    var_pad(total_len_of(dims, align),
            var_list(dims, init_val.items, 1, 0, align, vec, p), p)

\* the loop over the items of a brace list
var_list(dims, items, i, len, align, vec, p) ==
    IF i > Len(items) THEN [len |-> len, vec |-> vec]
    ELSE var_list_next(dims, items, i, len, align,
                       var_cur(dims, items[i], len, align, vec, Append(p, i)), p)

\* len += the length counted for item i
var_list_next(dims, items, i, len, align, r, p) ==
    var_list(dims, items, i + 1, len + r.len, align, r.vec, p)

\* the flat list of a whole initializer
flat_list(dims, init_val) ==
    var_cur(dims, init_val, 0, Len(dims) + 1, <<>>, <<>>).vec

\* an expander without its length assertion
local_var_init_unchecked(dims, vec) == [ok |-> TRUE, vec |-> vec]

\* local_var_init, the flat list in hand: assert_eq!(vec.len(), total_num)
local_var_init(dims, vec) ==
    [ok |-> Len(vec) = take_product(dims, 1, 1), vec |-> vec]

RECURSIVE regroup(_, _, _)
\* global_var_init, the regrouping loop: the number of aggregates left
\* after grouping n values by the dimensions from the last to the first
regroup(dims, i, n) ==
    IF i = 0 THEN n ELSE regroup(dims, i - 1, n \div dims[i])

\* global_var_init, the flat list in hand: the length assertion, the
\* regrouping and assert_eq!(vec.len(), 1)
global_var_init(dims, vec) ==
    [ok |-> /\ Len(vec) = take_product(dims, 1, 1)
            /\ regroup(dims, Len(dims), Len(vec)) = 1,
     vec |-> vec]

\* the outcome of an expansion as the declaration sees it
Expanded(r) ==
    [phase |-> IF r.ok THEN "expanded" ELSE "panicked",
     dims |-> comp.dims, init |-> comp.init, global |-> comp.global,
     vec |-> r.vec]

\* an array declaration with an initializer waits to be lowered
ArrayInit ==
    /\ \E dims \in DimLists, init \in InitVals, g \in BOOLEAN :
          comp = [phase |-> "decl", dims |-> dims, init |-> init, global |-> g]
    /\ overflow_checks = FALSE
    /\ SimIdle

\* VarDef::generate of a local array
LocalArray ==
    /\ comp.phase = "decl" /\ ~comp.global
    /\ comp' = Expanded(local_var_init(comp.dims, flat_list(comp.dims, comp.init)))
    /\ SimFrame

\* global_var_decl_gen of a global array
GlobalArray ==
    /\ comp.phase = "decl" /\ comp.global
    /\ comp' = Expanded(global_var_init(comp.dims, flat_list(comp.dims, comp.init)))
    /\ SimFrame

ArrayNext == LocalArray \/ GlobalArray

ArraySpec == ArrayInit /\ [][ArrayNext]_vars

\* the number of elements of the declared shape
ShapeSize == take_product(comp.dims, 1, 1)

\* C12: for every array shape and every partial-brace initializer that the
\* expander accepts, the flat list has exactly d1 * ... * dn elements
C12_FlatLength == comp.phase = "expanded" => Len(comp.vec) = ShapeSize

\* an accepted initializer of a two-dimensional array with a nested brace
\* that was padded with zeros and scalars after it
C12_Witness ==
    /\ comp.phase = "expanded"
    /\ Len(comp.dims) = 2 /\ ShapeSize = 6
    /\ Len(comp.init.items) >= 2
    /\ comp.init.items[1].k = "list" /\ comp.init.items[2].k = "exp"
    /\ \E i \in 2..Len(comp.vec) : comp.vec[i - 1].v = "zero" /\ comp.vec[i].v = "exp"

\* ---- The code generator, frame planning ----
\* (codegen/generate.rs, codegen/build.rs)

\* the functions planned hold at most MaxValues instructions
MaxValues == 3

\* the size of a pointer type, which koopa takes from the host
PtrSize == 8

\* the instructions of a function as the planners see them: a local
\* allocation and the size of what it points to, a call and the number of
\* its arguments, any other value; arg says that the single use of the
\* value is a call
PlanValues ==
    {[k |-> "alloc", size |-> 4 * d, arg |-> FALSE] : d \in 1..MaxDim}
    \cup {[k |-> "call", args |-> n, arg |-> FALSE] : n \in {1, 9, 10}}
    \cup {[k |-> "val", arg |-> a] : a \in BOOLEAN}

PlanFuncs == UNION {[1..n -> PlanValues] : n \in 0..MaxValues}

\* the numbers of parameters of the functions planned
PlanParams == {0, 1, 9}

\* a frame size left as it is
align16_skipped(n) == n

\* (n + 15) / 16 * 16
align16(n) == ((n + 15) \div 16) * 16

RECURSIVE alloc_pass(_, _, _, _)
\* Program::generate, "alloc var": every allocation gets the frame size so
\* far as its offset
alloc_pass(values, i, offset, frame_size) ==
    IF i > Len(values) THEN [offset |-> offset, frame_size |-> frame_size]
    ELSE IF values[i].k = "alloc"
         THEN alloc_pass(values, i + 1, (<<"v", i>> :> frame_size) @@ offset,
                         frame_size + values[i].size)
         ELSE alloc_pass(values, i + 1, offset, frame_size)

RECURSIVE call_pass(_, _, _, _)
\* Program::generate, "temporary function call": every value whose single
\* use is a call gets four bytes
call_pass(values, i, offset, frame_size) ==
    IF i > Len(values) THEN [offset |-> offset, frame_size |-> frame_size]
    ELSE IF values[i].arg
         THEN call_pass(values, i + 1, (<<"v", i>> :> frame_size) @@ offset,
                        frame_size + 4)
         ELSE call_pass(values, i + 1, offset, frame_size)

RECURSIVE max_arg_num(_, _, _)
\* the largest number of arguments of a call of the function
max_arg_num(values, i, m) ==
    IF i > Len(values) THEN m
    ELSE max_arg_num(values, i + 1,
                     IF values[i].k = "call" THEN Max(m, values[i].args) ELSE m)

\* Program::generate, the end of the plan: the return address, the area of
\* the outgoing arguments below every slot, the rounding
plan_finish(values, p, paranum, max_args) ==
    IF max_args > 8
    THEN [offset |-> [key \in DOMAIN p.offset |-> p.offset[key] + 4 * (max_args - 8)],
          frame_size |-> align16(p.frame_size + 4 + 4 * (max_args - 8)),
          paranum |-> 4 * (max_args - 8)]
    ELSE [offset |-> p.offset,
          frame_size |-> align16(p.frame_size + 4),
          paranum |-> paranum]

\* Program::generate, the passes one after the other; a is the result of
\* the first
plan_calls(values, a) == call_pass(values, 1, a.offset, a.frame_size)

\* Program::generate, the plan of one function; paranum is what the
\* function before left in the environment
plan_generate(values, paranum) ==
    plan_finish(values, plan_calls(values, alloc_pass(values, 1, <<>>, 0)),
                paranum, max_arg_num(values, 1, 0))

RECURSIVE param_slots(_, _, _, _)
\* FunctionData::build 2.1: four bytes for every parameter
param_slots(params, i, offset, current_offset) ==
    IF i > params THEN [offset |-> offset, current_offset |-> current_offset]
    ELSE param_slots(params, i + 1, (<<"p", i>> :> current_offset) @@ offset,
                     current_offset + 4)

RECURSIVE value_slots(_, _, _, _)
\* FunctionData::build 2.2: a slot for every instruction, of the size of
\* its type for an allocation and of four bytes otherwise
value_slots(values, i, offset, current_offset) ==
    IF i > Len(values) THEN [offset |-> offset, current_offset |-> current_offset]
    ELSE value_slots(values, i + 1, (<<"v", i>> :> current_offset) @@ offset,
                     current_offset + (IF values[i].k = "alloc" THEN PtrSize ELSE 4))

\* FunctionData::build, the slots in hand: the roundings to 4 and to 16
build_finish(s, paranum) ==
    [offset |-> s.offset,
     frame_size |-> align16(((s.current_offset + 3) \div 4) * 4),
     paranum |-> paranum]

\* FunctionData::build, the slots of the values after those of the
\* parameters
build_values(values, s) == value_slots(values, 1, s.offset, s.current_offset)

\* FunctionData::build, the plan of one function: the slots start after the
\* saved fp and ra
plan_build(values, params, paranum) ==
    build_finish(build_values(values, param_slots(params, 1, <<>>, 8)), paranum)

\* the state of code generation after a plan
Planned(by, values, params, plan) ==
    [phase |-> "codegen", planner |-> by, planned |-> TRUE,
     values |-> values, params |-> params,
     offset |-> plan.offset, frame_size |-> plan.frame_size,
     paranum |-> plan.paranum]

\* Env::new of the code generator
PlanInit ==
    /\ comp = [phase |-> "codegen", planner |-> "none", planned |-> FALSE,
               values |-> <<>>, params |-> 0,
               offset |-> <<>>, frame_size |-> 128, paranum |-> 0]
    /\ overflow_checks = FALSE
    /\ SimIdle

\* Program::generate plans the frame of the function it has come to
PlanGenerate ==
    /\ comp.phase = "codegen" /\ comp.planner # "build" /\ ~comp.planned
    /\ \E values \in PlanFuncs :
          comp' = Planned("generate", values, 0, plan_generate(values, comp.paranum))
    /\ SimFrame

\* FunctionData::build plans the frame of the function it has come to
PlanBuild ==
    /\ comp.phase = "codegen" /\ comp.planner # "generate" /\ ~comp.planned
    /\ \E values \in PlanFuncs, params \in PlanParams :
          comp' = Planned("build", values, params,
                          plan_build(values, params, comp.paranum))
    /\ SimFrame

\* the code of the function is emitted and the loop comes to the next
\* function, whose plan starts from an empty frame; paranum stays
NextFunc ==
    /\ comp.phase = "codegen" /\ comp.planned
    /\ comp' = [comp EXCEPT !.planned = FALSE, !.values = <<>>, !.params = 0,
                            !.offset = <<>>, !.frame_size = 0]
    /\ SimFrame

PlanNext == PlanGenerate \/ PlanBuild \/ NextFunc

PlanSpec == PlanInit /\ [][PlanNext]_vars

\* a frame has been planned
FramePlanned == comp.phase = "codegen" /\ comp.planned

\* C13: every stack offset that the frame planner assigns is at least 0 and
\* less than the frame size, and the frame size is a multiple of 16
C13_OffsetsInFrame ==
    FramePlanned =>
        /\ \A key \in DOMAIN comp.offset :
              0 <= comp.offset[key] /\ comp.offset[key] < comp.frame_size
        /\ comp.frame_size % 16 = 0

\* a planned frame with an area for outgoing arguments, an allocation and a
\* spilled call argument, of a size that the rounding changed
C13_Witness ==
    /\ FramePlanned /\ comp.planner = "generate"
    /\ max_arg_num(comp.values, 1, 0) > 8
    /\ \E i, j \in 1..Len(comp.values) :
          /\ comp.values[i].k = "alloc" /\ comp.values[j].arg
          /\ comp.offset[<<"v", i>>] = comp.paranum
          /\ comp.offset[<<"v", j>>] > comp.offset[<<"v", i>>]
    /\ comp.frame_size = 32

\* ---- The code generator, immediates ----
\* (codegen/asm.rs, codegen/build.rs)

\* the immediates and offsets tried: the ends of the 12-bit range and their
\* neighbours
Imms == {-2049, -2048, 0, 2047, 2048}

\* the slot offsets tried
SlotOffsets == {8, 2044, 2048}

\* the registers tried as operands
EmitRegs == {"sp", "t0", "a0"}

\* an emitted instruction: lw/sw a, imm(b); addi a, b, imm; li a, imm;
\* add/sub a, b, c; call
AsmInst(op, a, b, c, imm) == [op |-> op, a |-> a, b |-> b, c |-> c, imm |-> imm]

\* is_imm12
is_imm12(imm) == imm >= -2048 /\ imm <= 2047

\* AsmLocal::lw_inst
lw_inst(rd, imm, rs) ==
    IF is_imm12(imm) THEN <<AsmInst("lw", rd, rs, "", imm)>>
    ELSE <<AsmInst("li", "t0", "", "", imm),
           AsmInst("add", "t0", rs, "t0", 0),
           AsmInst("lw", rd, "t0", "", 0)>>

\* AsmLocal::sw_inst
sw_inst(rs, imm, rd) ==
    IF is_imm12(imm) THEN <<AsmInst("sw", rs, rd, "", imm)>>
    ELSE <<AsmInst("li", "t0", "", "", imm),
           AsmInst("add", "t0", rd, "t0", 0),
           AsmInst("sw", rs, "t0", "", 0)>>

\* AsmLocal::addi_inst
addi_inst(rd, rs, imm) ==
    IF is_imm12(imm) THEN <<AsmInst("addi", rd, rs, "", imm)>>
    ELSE <<AsmInst("li", "t0", "", "", imm),
           AsmInst("add", rd, rs, "t0", 0)>>

\* FunctionData::build, a store of reg to the slot at offset
slot_sw(reg, offset) ==
    IF is_imm12(offset) THEN <<AsmInst("sw", reg, "fp", "", offset)>>
    ELSE <<AsmInst("li", "t6", "", "", offset),
           AsmInst("add", "t6", "fp", "t6", 0),
           AsmInst("sw", reg, "t6", "", 0)>>

\* FunctionData::build, a load of reg from the slot at offset
slot_lw(reg, offset) ==
    IF is_imm12(offset) THEN <<AsmInst("lw", reg, "fp", "", offset)>>
    ELSE <<AsmInst("li", "t6", "", "", offset),
           AsmInst("add", "t6", "fp", "t6", 0),
           AsmInst("lw", reg, "t6", "", 0)>>

\* FunctionData::build, the Integer arm: the constant goes to its slot
build_integer(value, offset) ==
    <<AsmInst("li", "t0", "", "", value)>> \o slot_sw("t0", offset)

\* the argument registers a0..a7
ArgReg(i) == <<"a0", "a1", "a2", "a3", "a4", "a5", "a6", "a7">>[i]

\* FunctionData::build, the Call arm: an argument that is an integer
\* constant is loaded with li, any other from its slot
call_arg(reg, arg) ==
    IF arg.k = "int" THEN <<AsmInst("li", reg, "", "", arg.v)>>
    ELSE slot_lw(reg, arg.off)

RECURSIVE call_extra(_, _)
\* FunctionData::build, the Call arm, 3): the arguments from the ninth on
\* go through t0 to the stack; j counts from 8
call_extra(args, j) ==
    IF j >= Len(args) THEN <<>>
    ELSE call_arg("t0", args[j + 1])
         \o <<AsmInst("sw", "t0", "sp", "", 4 * (j - 8))>>
         \o call_extra(args, j + 1)

RECURSIVE call_regs(_, _)
\* FunctionData::build, the Call arm, 4): the first eight arguments
call_regs(args, i) ==
    IF i >= Min(Len(args), 8) THEN <<>>
    ELSE call_arg(ArgReg(i + 1), args[i + 1]) \o call_regs(args, i + 1)

\* FunctionData::build, the Call arm; extra is the number of arguments
\* beyond eight
build_call(args, extra, dst_offset) ==
    (IF extra > 0
     THEN <<AsmInst("addi", "sp", "sp", "", -(extra * 4))>>
          \o call_extra(args, 8)
     ELSE <<>>)
    \o call_regs(args, 0)
    \o <<AsmInst("call", "", "", "", 0)>>
    \o (IF extra > 0 THEN <<AsmInst("addi", "sp", "sp", "", extra * 4)>> ELSE <<>>)
    \o slot_sw("a0", dst_offset)

\* an argument kept in the slot at offset
SlotArg(offset) == [k |-> "slot", off |-> offset]

\* what an emission leaves: the request and the instructions pushed for it
Emitted(op, reg, base, imm, out) ==
    [phase |-> "emit", op |-> op, reg |-> reg, base |-> base, imm |-> imm, out |-> out]

\* an empty instruction list
EmitInit ==
    /\ comp = Emitted("none", "", "", 0, <<>>)
    /\ overflow_checks = FALSE
    /\ SimIdle

\* a caller asks the emitter for a load
EmitLw ==
    /\ comp.phase = "emit"
    /\ \E rd \in EmitRegs, rs \in EmitRegs, imm \in Imms :
          comp' = Emitted("lw", rd, rs, imm, lw_inst(rd, imm, rs))
    /\ SimFrame

\* a caller asks the emitter for a store
EmitSw ==
    /\ comp.phase = "emit"
    /\ \E rs \in EmitRegs, rd \in EmitRegs, imm \in Imms :
          comp' = Emitted("sw", rs, rd, imm, sw_inst(rs, imm, rd))
    /\ SimFrame

\* a caller asks the emitter for an add of an immediate
EmitAddi ==
    /\ comp.phase = "emit"
    /\ \E rd \in EmitRegs, rs \in EmitRegs, imm \in Imms :
          comp' = Emitted("addi", rd, rs, imm, addi_inst(rd, rs, imm))
    /\ SimFrame

\* FunctionData::build comes to an integer constant
BuildInteger ==
    /\ comp.phase = "emit"
    /\ \E value \in Imms, offset \in SlotOffsets :
          comp' = Emitted("sw", "t0", "fp", offset, build_integer(value, offset))
    /\ SimFrame

\* FunctionData::build comes to a call
BuildCall ==
    /\ comp.phase = "emit"
    /\ \E nargs \in {1, 9, 10}, arg_offset \in SlotOffsets, dst_offset \in SlotOffsets :
          comp' = Emitted("call", "a0", "fp", dst_offset,
                          build_call([i \in 1..nargs |-> SlotArg(arg_offset)],
                                     Max(nargs - 8, 0), dst_offset))
    /\ SimFrame

EmitNext == EmitLw \/ EmitSw \/ EmitAddi \/ BuildInteger \/ BuildCall

EmitSpec == EmitInit /\ [][EmitNext]_vars

\* the last n instructions pushed
LastInsts(n) == SubSeq(comp.out, Len(comp.out) - n + 1, Len(comp.out))

\* the instructions pushed end in the expansion of the request through t6
ExpandedViaT6 ==
    /\ Len(comp.out) >= 3
    /\ LastInsts(3)[1] = AsmInst("li", "t6", "", "", comp.imm)
    /\ LastInsts(3)[2] = AsmInst("add", "t6", comp.base, "t6", 0)
    /\ LastInsts(3)[3].op = comp.op
    /\ LastInsts(3)[3].imm = 0
    /\ "t6" \in {LastInsts(3)[3].a, LastInsts(3)[3].b}

\* a load, store or add of an immediate outside the 12-bit range was asked
\* for
OutOfRangeRequest ==
    /\ comp.phase = "emit"
    /\ comp.op \in {"lw", "sw", "addi"}
    /\ ~is_imm12(comp.imm)

\* C14: every sw, lw and addi whose integer operand lies outside
\* [-2048, 2047] is emitted as the three instructions li t6 / add t6, base,
\* t6 / the operation through t6, and no out-of-range immediate appears in
\* an emitted sw, lw or addi
C14_ImmExpansion ==
    /\ OutOfRangeRequest => ExpandedViaT6
    /\ comp.phase = "emit" =>
          \A i \in 1..Len(comp.out) :
              comp.out[i].op \in {"lw", "sw", "addi"} => is_imm12(comp.out[i].imm)

\* ---- The constant evaluator (irgen/eval.rs) ----

\* the operand values tried
EvalInts == {I32Min, I32Min + 1, -7, -1, 0, 1, 2, 7, 65536, I32Max}

\* the operators of AddExp, MulExp and UnaryExp that compute a number
EvalOps == {"add", "sub", "mul", "div", "mod", "neg"}

\* a + b does not fit an i32
AddOverflows32(a, b) ==
    \/ b > 0 /\ a > I32Max - b
    \/ b < 0 /\ a < I32Min - b

\* the low 32 bits of a + b as an i32
WrapAdd32(a, b) ==
    IF b > 0 /\ a > I32Max - b THEN ((a - I32Max) - 1) + ((b - I32Max) - 1)
    ELSE IF b < 0 /\ a < I32Min - b THEN ((a + I32Max) + 1) + ((b + I32Max) + 1)
    ELSE a + b

\* a - b does not fit an i32
SubOverflows32(a, b) ==
    \/ b < 0 /\ a > I32Max + b
    \/ b > 0 /\ a < I32Min + b

\* the low 32 bits of a - b as an i32
WrapSub32(a, b) ==
    IF b < 0 /\ a > I32Max + b THEN ((a - I32Max) - 1) - ((b + I32Max) + 1)
    ELSE IF b > 0 /\ a < I32Min + b THEN ((a + I32Max) + 1) - ((b - I32Max) - 1)
    ELSE a - b

\* the i32 with the 16-bit halves hi and lo
FromHalves(hi, lo) == ((IF hi >= 32768 THEN hi - 65536 ELSE hi) * 65536) + lo

\* the low 32 bits of a product, the sums of its upper and lower partial
\* products in hand
MulCarry(hi, lo) == FromHalves((hi + (lo \div 65536)) % 65536, lo % 65536)

\* t1 + 256 * t2 + 65536 * cross
MulSum(t1, t2, cross) ==
    MulCarry((t1 \div 65536) + (t2 \div 256) + cross, (t1 % 65536) + ((t2 % 256) * 256))

\* the low 32 bits of (ah * 65536 + al) * (bh * 65536 + bl)
MulHalves(ah, al, bh, bl) ==
    MulSum(al * (bl % 256), al * (bl \div 256),
           (((ah * bl) % 65536) + ((al * bh) % 65536)) % 65536)

\* the low 32 bits of a * b as an i32
WrapMul32(a, b) == MulHalves(a \div 65536, a % 65536, b \div 65536, b % 65536)

\* a * b does not fit an i32, p its low 32 bits
MulOverflows(a, b, p) ==
    \/ b # 0 /\ TruncDiv(p, b) # a
    \/ a = I32Min /\ b = -1

\* what eval returns: a value, or the panic of the compiler
EvalOk(n) == [ok |-> TRUE, val |-> n]
EvalPanic == [ok |-> FALSE, val |-> 0]

\* an i32 operation of the host: on overflow it panics when overflow checks
\* are compiled in and wraps otherwise
host_i32(overflows, wrapped, oc) ==
    IF overflows /\ oc THEN EvalPanic ELSE EvalOk(wrapped)

\* the / and % of the host on i32: a zero divisor and i32::MIN by -1 panic
\* in every build
host_divides(a, b) == b # 0 /\ ~(a = I32Min /\ b = -1)

\* MulExp::eval, MulOp::Mul, the wrapped product in hand
eval_mul(a, b, p, oc) == host_i32(MulOverflows(a, b, p), p, oc)

\* AddExp::eval, MulExp::eval, UnaryExp::eval on evaluated operands
eval(op, a, b, oc) ==
    CASE op = "add" -> host_i32(AddOverflows32(a, b), WrapAdd32(a, b), oc)
      [] op = "sub" -> host_i32(SubOverflows32(a, b), WrapSub32(a, b), oc)
      [] op = "mul" -> eval_mul(a, b, WrapMul32(a, b), oc)
      [] op = "div" -> IF host_divides(a, b) THEN EvalOk(TruncDiv(a, b)) ELSE EvalPanic
      [] op = "mod" -> IF host_divides(a, b) THEN EvalOk(TruncRem(a, b)) ELSE EvalPanic
      [] op = "neg" -> host_i32(a = I32Min, WrapSub32(0, a), oc)

\* AddExp::generate, MulExp::generate, UnaryExp::generate: the binary
\* instruction inserted for the operator, and its operands
binary_of(op, a, b) ==
    CASE op = "add" -> [op |-> "add", lhs |-> a, rhs |-> b]
      [] op = "sub" -> [op |-> "sub", lhs |-> a, rhs |-> b]
      [] op = "mul" -> [op |-> "mul", lhs |-> a, rhs |-> b]
      [] op = "div" -> [op |-> "div", lhs |-> a, rhs |-> b]
      [] op = "mod" -> [op |-> "rem", lhs |-> a, rhs |-> b]
      [] op = "neg" -> [op |-> "sub", lhs |-> 0, rhs |-> a]

\* the machine instruction of a binary instruction, run on operands loaded
\* by lw, its result stored by sw: the low 32 bits of the 64-bit result; a
\* division by zero yields no value
run_binary(i) ==
    CASE i.op = "add" -> EvalOk(WrapAdd32(i.lhs, i.rhs))
      [] i.op = "sub" -> EvalOk(WrapSub32(i.lhs, i.rhs))
      [] i.op = "mul" -> EvalOk(WrapMul32(i.lhs, i.rhs))
      [] i.op = "div" -> IF i.rhs = 0 THEN EvalPanic
                         ELSE EvalOk(TruncDiv(i.lhs, i.rhs))
      [] i.op = "rem" -> IF i.rhs = 0 THEN EvalPanic
                         ELSE EvalOk(TruncRem(i.lhs, i.rhs))

\* the value of the expression as the compiled code computes it
run_value(op, a, b) == run_binary(binary_of(op, a, b))

\* an expression of two literals is to be compiled, by a build with or
\* without overflow checks
EvalInit ==
    /\ \E op \in EvalOps, a \in EvalInts, b \in EvalInts :
          comp = [phase |-> "exp", op |-> op, a |-> a, b |-> b]
    /\ overflow_checks \in BOOLEAN
    /\ SimIdle

\* the expression stands where a constant is required: ConstExp::eval
EvalConst ==
    /\ comp.phase = "exp"
    /\ comp' = [phase |-> "folded", op |-> comp.op, a |-> comp.a, b |-> comp.b,
                res |-> eval(comp.op, comp.a, comp.b, overflow_checks)]
    /\ SimFrame

\* the expression stands in a statement: it is lowered, compiled and run
RunExp ==
    /\ comp.phase = "exp"
    /\ comp' = [phase |-> "ran", op |-> comp.op, a |-> comp.a, b |-> comp.b,
                res |-> run_value(comp.op, comp.a, comp.b)]
    /\ SimFrame

EvalNext == EvalConst \/ RunExp

EvalSpec == EvalInit /\ [][EvalNext]_vars

\* C15: the constant evaluator returns the value that the compiled code
\* computes at run time: 32-bit two's-complement wrap-around for +, -, *
\* and unary minus, / and % rounded toward zero, for all operand values
\* (those for which the compiled code computes a value)
C15_EvalIsRunValue ==
    (comp.phase = "folded" /\ run_value(comp.op, comp.a, comp.b).ok)
        => comp.res = run_value(comp.op, comp.a, comp.b)

\* ---- The IR generator, short-circuit expressions ----
\* (irgen/generate.rs, LOrExp and LAndExp)

\* the expressions lowered hold at most ExpSize operators
ExpSize == 2

\* the values of the operands tried
LeafVals == {0, 1, 2}

RECURSIVE LExps(_)
\* the expressions with exactly n operators && and ||; an operand stands
\* for any expression without them, v the value it will have at run time
LExps(n) ==
    IF n = 0 THEN {[k |-> "leaf", v |-> v] : v \in LeafVals}
    ELSE UNION {{[k |-> op, l |-> l, r |-> r] :
                    op \in {"and", "or"}, l \in LExps(m), r \in LExps(n - 1 - m)} :
                m \in 0..(n - 1)}

\* a Value: an integer constant, or the instruction i of block b
IntValue(n) == [k |-> "const", n |-> n]
InstValue(b, i) == [k |-> "inst", b |-> b, i |-> i]

\* an instruction is pushed to the current block and is the resulting Value
emit_val(env, inst) ==
    [env |-> push_inst(env, inst),
     val |-> InstValue(env.block, Len(env.insts[env.block + 1]) + 1)]

\* the instructions of an operand, p its place in the expression
leaf_inst(env, p, v) == emit_val(env, [op |-> "leaf", p |-> p, v |-> v])

\* insert_bi_inst(BinaryOp::NotEq, val, zero)
ne_zero_inst(env, val) == emit_val(env, [op |-> "ne", lhs |-> val, rhs |-> IntValue(0)])

\* Env::alloc_var
alloc_var(env) == push_inst(env, [op |-> "alloc"])

\* Env::store_var: var is the allocation that the name is bound to
store_var(env, var, val) == push_inst(env, [op |-> "store", var |-> var, val |-> val])

\* Env::load_var
load_var(env, var) == emit_val(env, [op |-> "load", var |-> var])

\* Env::branch_inst with its condition
branch_on(env, cond, then_bb, else_bb) ==
    push_inst(env, [op |-> "br", cond |-> cond, to |-> then_bb, or |-> else_bb])

\* Env::ret_inst with its value
ret_value(env, val) == push_inst(env, [op |-> "ret", val |-> val])

\* branch targets the wrong way round
short_targets_swapped(k, c) == IF k = "or" THEN <<c + 1, c + 2>> ELSE <<c + 2, c + 1>>

\* the targets of the branch on the left operand, c the cond block: for ||
\* (end_bb, then_bb), for && (then_bb, end_bb)
short_targets(k, c) == IF k = "or" THEN <<c + 2, c + 1>> ELSE <<c + 1, c + 2>>

\* LOrExp::generate, LAndExp::generate up to the left operand: three blocks,
\* the jump to cond, the temporary and its first value (1 for ||, 0 for &&)
short_start(env, c, k) ==
    store_var(
        alloc_var(set_block(jump_inst(create_block(create_block(create_block(env))), c), c)),
        InstValue(c, 1), IntValue(IF k = "or" THEN 1 ELSE 0))

\* the branch on the compared left operand r; the then block becomes current
short_branch(r, c, targets) ==
    set_block(branch_on(r.env, r.val, targets[1], targets[2]), c + 1)

\* the compared right operand r goes to the temporary, which is read in the
\* end block
short_end(r, c) ==
    load_var(set_block(jump_inst(store_var(r.env, InstValue(c, 1), r.val), c + 2), c + 2),
             InstValue(c, 1))

\* the comparison of an operand r with zero
short_compare(r) == ne_zero_inst(r.env, r.val)

RECURSIVE LExp_generate(_, _, _)
RECURSIVE short_right(_, _, _, _)

\* LOrExp::generate, LAndExp::generate
LExp_generate(e, env, p) ==
    IF e.k = "leaf" THEN leaf_inst(env, p, e.v)
    ELSE short_right(e, p, env.block_count,
                     short_compare(
                         LExp_generate(e.l, short_start(env, env.block_count, e.k),
                                       Append(p, 1))))

\* the part after the left operand, its compared value r in hand
short_right(e, p, c, r) ==
    short_end(short_compare(
                  LExp_generate(e.r, short_branch(r, c, short_targets(e.k, c)),
                                Append(p, 2))),
              c)

\* Return::generate, the value r of its expression in hand
return_value(r) == ret_value(r.env, r.val)

\* FuncDef::generate of int f() { return e; }
return_generate(e) ==
    return_value(LExp_generate(e, set_block(create_block(Env_default), 0), <<>>))

\* the integer a Value stands for, vals the results of the instructions run
ValueOf(val, vals) == IF val.k = "const" THEN val.n ELSE vals[<<val.b, val.i>>]

\* the state of a run: the results of the instructions, the cells of the
\* allocations, the operands run, the value returned
RunState(vals, cells, seen, ret) ==
    [vals |-> vals, cells |-> cells, seen |-> seen, ret |-> ret]

RECURSIVE run(_, _, _, _)
RECURSIVE exec(_, _, _, _, _)

\* the function runs from instruction i of block b
run(env, b, i, st) == exec(env, b, i, st, env.insts[b + 1][i])

\* one instruction of the function runs
exec(env, b, i, st, inst) ==
    CASE inst.op = "leaf" ->
            run(env, b, i + 1,
                RunState((<<b, i>> :> inst.v) @@ st.vals, st.cells,
                         st.seen \cup {inst.p}, st.ret))
      [] inst.op = "ne" ->
            run(env, b, i + 1,
                RunState((<<b, i>> :> IF ValueOf(inst.lhs, st.vals)
                                         # ValueOf(inst.rhs, st.vals) THEN 1 ELSE 0)
                            @@ st.vals,
                         st.cells, st.seen, st.ret))
      [] inst.op = "alloc" -> run(env, b, i + 1, st)
      [] inst.op = "store" ->
            run(env, b, i + 1,
                RunState(st.vals,
                         (<<inst.var.b, inst.var.i>> :> ValueOf(inst.val, st.vals))
                            @@ st.cells,
                         st.seen, st.ret))
      [] inst.op = "load" ->
            run(env, b, i + 1,
                RunState((<<b, i>> :> st.cells[<<inst.var.b, inst.var.i>>]) @@ st.vals,
                         st.cells, st.seen, st.ret))
      [] inst.op = "jump" -> run(env, inst.to, 1, st)
      [] inst.op = "br" ->
            run(env, IF ValueOf(inst.cond, st.vals) # 0 THEN inst.to ELSE inst.or, 1, st)
      [] inst.op = "ret" ->
            RunState(st.vals, st.cells, st.seen, ValueOf(inst.val, st.vals))

\* an expression waits to be lowered
ExpInit ==
    /\ \E n \in 0..ExpSize : \E e \in LExps(n) : comp = [phase |-> "exp", e |-> e]
    /\ overflow_checks = FALSE
    /\ SimIdle

\* int f() { return e; } is lowered
LowerExp ==
    /\ comp.phase = "exp"
    /\ comp' = [phase |-> "lowered", e |-> comp.e, env |-> return_generate(comp.e)]
    /\ SimFrame

\* the lowered function is run from its entry block
RunLowered ==
    /\ comp.phase = "lowered"
    /\ comp' = [phase |-> "ran", e |-> comp.e, env |-> comp.env,
                st |-> run(comp.env, 0, 1, RunState(<<>>, <<>>, {}, 0))]
    /\ SimFrame

ExpNext == LowerExp \/ RunLowered

ExpSpec == ExpInit /\ [][ExpNext]_vars

RECURSIVE Truth(_)
\* the truth of an expression, from the values of its operands
Truth(e) ==
    CASE e.k = "leaf" -> e.v # 0
      [] e.k = "and" -> Truth(e.l) /\ Truth(e.r)
      [] e.k = "or" -> Truth(e.l) \/ Truth(e.r)

\* p is the start of q
IsPrefix(p, q) == Len(p) <= Len(q) /\ SubSeq(q, 1, Len(p)) = p

\* an operand at or below place p of the expression was run
RanBelow(p, seen) == \E q \in seen : IsPrefix(p, q)

RECURSIVE RightGuarded(_, _, _)
\* at every operator of e, standing at place p: the right operand was run
\* only where the left one was true (for &&) or false (for ||)
RightGuarded(e, p, seen) ==
    \/ e.k = "leaf"
    \/ /\ RanBelow(Append(p, 2), seen) => (Truth(e.l) <=> (e.k = "and"))
       /\ RightGuarded(e.l, Append(p, 1), seen)
       /\ RightGuarded(e.r, Append(p, 2), seen)

\* C16: in the code lowered for a && b the instructions of b are executed
\* only where a is non-zero, for a || b only where a is zero, and the value
\* of either is 1 when it is true and 0 otherwise
C16_ShortCircuit ==
    (comp.phase = "ran" /\ comp.e.k # "leaf") =>
        /\ RightGuarded(comp.e, <<>>, comp.st.seen)
        /\ comp.st.ret = (IF Truth(comp.e) THEN 1 ELSE 0)

\* a run of (a || b) && c with a zero, b two and c two: b and c were run,
\* and the value is 1
C16_Witness ==
    /\ comp.phase = "ran"
    /\ comp.e.k = "and" /\ comp.e.l.k = "or"
    /\ comp.e.l.l.v = 0 /\ comp.e.l.r.v = 2 /\ comp.e.r.v = 2
    /\ comp.st.seen = {<<1, 1>>, <<1, 2>>, <<2>>}
    /\ comp.st.ret = 1

(* ------------------------------------------------------------------------
   The scope stack of the IR generator: src/irgen/scope.rs.  A frame maps
   the names it binds to their VarValue.
   ------------------------------------------------------------------------ *)

\* the deepest scope stack built
MaxScopes == 2

\* the names declared
Idents == {"a", "b"}

\* Some(v)
OptSome(v) == [k |-> "Some", v |-> v]

\* None
OptNone == [k |-> "None"]

\* an answer that is no Option
Plain(v) == [k |-> "Plain", v |-> v]

\* VarValue::Const(num)
VarConst(num) == [k |-> "Const", num |-> num]

\* VarValue::Alloc(Some(addr), dims, is_pointer)
VarAlloc(addr, dims, is_pointer) ==
    [k |-> "Alloc", addr |-> addr, dims |-> dims, is_pointer |-> is_pointer]

\* VarValue::Func(Some(func))
VarFunc(func) == [k |-> "Func", func |-> func]

\* the values Env inserts for constants, scalars, arrays and array parameters
VarValues ==
    { VarConst(1), VarConst(2),
      VarAlloc(1, OptNone, OptNone),
      VarAlloc(2, OptSome(<<2>>), OptSome(FALSE)),
      VarAlloc(3, OptSome(<<2, 3>>), OptSome(TRUE)) }

\* the lookups of Scope
Lookups ==
    { "lookup_var", "lookup_func", "is_const", "is_array", "lookup_dim_size",
      "lookup_is_pointer", "lookup_var_addr" }

\* the lookup panics
LookupPanic == [k |-> "Panic"]

\* the loop goes on to the next frame
NextFrame == [k |-> "continue"]

\* Scope::insert_var, Scope::insert_func: the last frame binds ident to val
insert_var(scopes, ident, val) ==
    [scopes EXCEPT ![Len(scopes)] =
        [n \in DOMAIN @ \cup {ident} |-> IF n = ident THEN val ELSE @[n]]]

\* the body of the loop of a lookup, for a frame that binds the name to val
lookup_arm(kind, val) ==
    CASE kind = "lookup_var" -> OptSome(val)
      [] kind = "lookup_func" ->
            IF val.k = "Func" THEN OptSome(val.func) ELSE OptNone
      [] kind = "is_const" ->
            IF val.k = "Const" THEN OptSome(val.num) ELSE OptNone
      [] kind = "is_array" -> Plain(val.k = "Alloc" /\ val.dims # OptNone)
      [] kind = "lookup_dim_size" ->
            IF val.k = "Alloc" /\ val.dims # OptNone
            THEN OptSome(Len(val.dims.v)) ELSE NextFrame
      [] kind = "lookup_is_pointer" ->
            IF val.k # "Alloc" THEN NextFrame
            ELSE IF val.is_pointer = OptNone THEN LookupPanic
            ELSE OptSome(val.is_pointer.v)
      [] kind = "lookup_var_addr" ->
            IF val.k = "Alloc" THEN OptSome(val.addr) ELSE LookupPanic

\* what a lookup answers after its loop
lookup_end(kind) ==
    CASE kind = "is_array" -> Plain(FALSE)
      [] kind = "lookup_var_addr" -> LookupPanic
      [] OTHER -> OptNone

\* the frames in the order the lookup iterates them: self.scopes.iter() for
\* lookup_func, self.scopes.iter().rev() for the others
scan_order(kind, n) ==
    IF kind = "lookup_func" THEN [i \in 1..n |-> i] ELSE [i \in 1..n |-> n + 1 - i]

RECURSIVE lookup_scan(_, _, _, _, _)
\* the loop of a lookup from the i-th frame of its order on
lookup_scan(kind, scopes, ident, order, i) ==
    IF i > Len(order) THEN lookup_end(kind)
    ELSE IF ident \notin DOMAIN scopes[order[i]]
         THEN lookup_scan(kind, scopes, ident, order, i + 1)
    ELSE IF lookup_arm(kind, scopes[order[i]][ident]) = NextFrame
         THEN lookup_scan(kind, scopes, ident, order, i + 1)
    ELSE lookup_arm(kind, scopes[order[i]][ident])

\* Scope::lookup_var, lookup_func, is_const, is_array, lookup_dim_size,
\* lookup_is_pointer, lookup_var_addr
lookup(kind, scopes, ident) ==
    lookup_scan(kind, scopes, ident, scan_order(kind, Len(scopes)), 1)

\* a Scope with these frames, after the lookup q answered r
ScopeState(scopes, q, r, panicked) ==
    [phase |-> "scope", scopes |-> scopes, q |-> q, r |-> r, panicked |-> panicked]

\* no lookup was made since the stack changed
NoQuery == [kind |-> "none", ident |-> "none"]

\* Scope::default()
ScopeInit ==
    /\ comp = ScopeState(<<>>, NoQuery, OptNone, FALSE)
    /\ overflow_checks = FALSE
    /\ SimIdle

ScopeLive == comp.phase = "scope" /\ ~comp.panicked

ScopeEnter ==
    /\ ScopeLive
    /\ Len(comp.scopes) < MaxScopes
    /\ comp' = ScopeState(enter_scope(comp.scopes), NoQuery, OptNone, FALSE)
    /\ SimFrame

ScopeExit ==
    /\ ScopeLive
    /\ comp' = ScopeState(exit_scope(comp.scopes), NoQuery, OptNone, FALSE)
    /\ SimFrame

\* insert_var; self.scopes.last_mut().unwrap() panics on an empty stack
InsertVar ==
    /\ ScopeLive
    /\ \E ident \in Idents : \E val \in VarValues :
          comp' = IF Len(comp.scopes) = 0
                  THEN ScopeState(comp.scopes, NoQuery, OptNone, TRUE)
                  ELSE ScopeState(insert_var(comp.scopes, ident, val),
                                  NoQuery, OptNone, FALSE)
    /\ SimFrame

\* insert_func
InsertFunc ==
    /\ ScopeLive
    /\ \E ident \in Idents :
          comp' = IF Len(comp.scopes) = 0
                  THEN ScopeState(comp.scopes, NoQuery, OptNone, TRUE)
                  ELSE ScopeState(insert_var(comp.scopes, ident, VarFunc(1)),
                                  NoQuery, OptNone, FALSE)
    /\ SimFrame

\* the answer r of a lookup is noted
Answered(q, r) == ScopeState(comp.scopes, q, r, r = LookupPanic)

Lookup ==
    /\ ScopeLive
    /\ comp.q = NoQuery
    /\ \E kind \in Lookups : \E ident \in Idents :
          comp' = Answered([kind |-> kind, ident |-> ident],
                           lookup(kind, comp.scopes, ident))
    /\ SimFrame

ScopeNext == ScopeEnter \/ ScopeExit \/ InsertVar \/ InsertFunc \/ Lookup

ScopeSpec == ScopeInit /\ [][ScopeNext]_vars

RECURSIVE innermost(_, _, _)
\* the innermost of the frames 1..i that binds ident, 0 when none does
innermost(scopes, ident, i) ==
    IF i = 0 THEN 0
    ELSE IF ident \in DOMAIN scopes[i] THEN i
    ELSE innermost(scopes, ident, i - 1)

\* the stack that holds only the innermost frame binding ident
FirstBinding(scopes, ident, i) == IF i = 0 THEN <<>> ELSE <<scopes[i]>>

\* a lookup was answered
Looked == comp.phase = "scope" /\ comp.q # NoQuery

\* C17: every lookup answers what the innermost frame that binds the name
\* answers on its own (and what the empty stack answers when no frame binds
\* it), whatever enter_scope, exit_scope and inserts built the stack
C17_InnermostFirst ==
    Looked =>
        comp.r = lookup(comp.q.kind,
                        FirstBinding(comp.scopes, comp.q.ident,
                                     innermost(comp.scopes, comp.q.ident,
                                               Len(comp.scopes))),
                        comp.q.ident)

\* ---- break, continue and the loop stack ----

\* the statement that stands below s at step n of a path: the n-th item of a
\* Block, the body of a While, the then part (1) or else part (2) of an If
ChildStmt(s, n) ==
    CASE s.k = "block" -> s.items[n]
      [] s.k = "ifelse" -> IF n = 1 THEN s.s ELSE s.e
      [] OTHER -> s.s

RECURSIVE StmtAt(_, _, _)
\* the statement reached from s by the steps i.. of path p
StmtAt(s, p, i) ==
    IF i > Len(p) THEN s ELSE StmtAt(ChildStmt(s, p[i]), p, i + 1)

RECURSIVE EnclosingWhile(_, _, _)
\* the length of the longest start of p, of at most n steps, that names a
\* While of the body; -1 when no While encloses the statement
EnclosingWhile(body, p, n) ==
    IF n < 0 THEN -1
    ELSE IF StmtAt(body, SubSeq(p, 1, n), 1).k = "while" THEN n
    ELSE EnclosingWhile(body, p, n - 1)

\* what While::generate noted for the While at path q
WhileNotes(q) == {comp.env.whiles[i] : i \in {n \in 1..Len(comp.env.whiles) :
                                             comp.env.whiles[n].path = q}}

\* the jump j of a break or continue goes to the end block, respectively the
\* cond block, of the While at the first n steps of its path
JumpsTo(j, n) ==
    /\ n >= 0
    /\ \A w \in WhileNotes(SubSeq(j.path, 1, n)) :
          j.to = (IF StmtAt(comp.body, j.path, 1).k = "brk" THEN w.end ELSE w.cond)
    /\ WhileNotes(SubSeq(j.path, 1, n)) # {}

\* C18: every break is lowered to a jump to the end block of the innermost
\* While around it and every continue to a jump to that While's cond block,
\* and While::generate leaves the loop stack as it found it
C18_LoopTargets ==
    Lowered =>
        /\ \A i \in 1..Len(comp.env.jumps) :
              JumpsTo(comp.env.jumps[i],
                      EnclosingWhile(comp.body, comp.env.jumps[i].path,
                                     Len(comp.env.jumps[i].path) - 1))
        /\ \A i \in 1..Len(comp.env.whiles) :
              comp.env.whiles[i].after = comp.env.whiles[i].before
        /\ comp.env.loopstack = <<>>

\* a break or continue was lowered after an inner loop of its While was
\* completed: the jump goes to the outer loop
C18_Witness ==
    /\ Lowered
    /\ \E i \in 1..Len(comp.env.jumps) : \E o, n \in 1..Len(comp.env.whiles) :
          /\ n < o
          /\ comp.env.whiles[o].path # comp.env.jumps[i].path
          /\ IsPrefix(comp.env.whiles[o].path, comp.env.jumps[i].path)
          /\ comp.env.whiles[o].path # comp.env.whiles[n].path
          /\ IsPrefix(comp.env.whiles[o].path, comp.env.whiles[n].path)
          /\ ~IsPrefix(comp.env.whiles[n].path, comp.env.jumps[i].path)
          /\ comp.env.jumps[i].to = comp.env.whiles[o].end
          /\ comp.env.whiles[o].before = <<>>
          /\ comp.env.whiles[n].before # <<>>

\* ---- reachability of the blocks ----

\* the blocks that the instructions of block b jump or branch to
Targets(b) ==
    UNION {IF InstsOf(b)[i].op = "jump" THEN {InstsOf(b)[i].to}
           ELSE IF InstsOf(b)[i].op = "br" THEN {InstsOf(b)[i].to, InstsOf(b)[i].or}
           ELSE {} : i \in 1..Len(InstsOf(b))}

RECURSIVE ReachableFrom(_, _)
\* the blocks reached from the blocks in seen; n bounds the steps left
ReachableFrom(seen, n) ==
    IF n = 0 THEN seen
    ELSE ReachableFrom(seen \cup UNION {Targets(b) : b \in seen}, n - 1)

\* the entry block of the function: the first block of its layout
EntryBlock == comp.env.layout[1]

\* the blocks reachable from the entry block
Reachable == ReachableFrom({EntryBlock}, Len(comp.env.layout))

\* C19: every basic block in the layout of a lowered function is reachable
\* from the entry block
C19_AllReachable == Lowered => LayoutBlocks \subseteq Reachable

\* ---- the scope stack around blocks and functions ----

\* the scope depth inside CompUnit::generate, around FuncDef::generate
GlobalDepth == Len(enter_scope(Env_default.scopes))

\* the items of the Block noted in the i-th entry of blocks
NotedItems(i) == StmtAt(comp.body, comp.env.blocks[i].path, 1).items

\* C20: every Block::generate and FuncDef::generate leaves the scope stack as
\* deep as it found it, also where the block stopped at a return, break or
\* continue, and the global frame stays on the stack until the unit is
\* lowered
C20_ScopeDepth ==
    Lowered =>
        /\ \A i \in 1..Len(comp.env.blocks) :
              comp.env.blocks[i].after = comp.env.blocks[i].before
        /\ Len(comp.env.scopes) = GlobalDepth
        /\ comp.env.low >= GlobalDepth

\* a Block of two items stopped at its first item, a break or continue, and
\* the Block around its loop at a return
C20_Witness ==
    /\ Lowered
    /\ \E i, j \in 1..Len(comp.env.blocks) :
          /\ Len(NotedItems(i)) = 2
          /\ NotedItems(i)[1].k \in {"brk", "cont"}
          /\ comp.env.blocks[i].before > GlobalDepth + 1
          /\ comp.env.blocks[i].after = comp.env.blocks[i].before
          /\ NotedItems(j)[Len(NotedItems(j))].k = "ret"
          /\ comp.env.blocks[j].after = comp.env.blocks[j].before
          /\ Len(comp.env.scopes) = 1

(* ------------------------------------------------------------------------
   The constant evaluator on logical operators: src/irgen/eval.rs,
   LOrExp::eval and LAndExp::eval.
   ------------------------------------------------------------------------ *)

\* the values of the literals in the operands
LogicVals == {-1, 0, 1, 2}

\* the right operands tried: a literal, a binary expression of two literals,
\* a function call
LogicRights ==
    {[op |-> "num", a |-> a, b |-> 0] : a \in LogicVals}
    \cup {[op |-> op, a |-> a, b |-> b] :
              op \in {"add", "div", "mod"}, a \in LogicVals, b \in LogicVals}
    \cup {[op |-> "call", a |-> 0, b |-> 0]}

\* the eval of an operand: PrimaryExp::Num, the binary operators, and
\* UnaryExp::FuncCall, which panics
eval_operand(x, oc) ==
    CASE x.op = "num" -> EvalOk(x.a)
      [] x.op = "call" -> EvalPanic
      [] OTHER -> eval(x.op, x.a, x.b, oc)

\* (l != 0) as i32 | (r != 0) as i32 and (l != 0) as i32 & (r != 0) as i32
logic_bits(lop, l, r) ==
    IF lop = "or" THEN (IF l # 0 \/ r # 0 THEN 1 ELSE 0)
    ELSE (IF l # 0 /\ r # 0 THEN 1 ELSE 0)

\* LOrExp::eval, LAndExp::eval: both operands are evaluated, the left one
\* first, and then combined; lres and rres are what their evals return
eval_logic(lop, lres, rres) ==
    IF ~lres.ok \/ ~rres.ok THEN EvalPanic
    ELSE EvalOk(logic_bits(lop, lres.val, rres.val))

\* a logical expression of a literal and a right operand stands where a
\* constant is required
LogicInit ==
    /\ \E lop \in {"and", "or"}, a \in LogicVals, r \in LogicRights :
          comp = [phase |-> "logic", lop |-> lop, a |-> a, r |-> r]
    /\ overflow_checks = FALSE
    /\ SimIdle

\* ConstExp::eval of the expression
EvalLogic ==
    /\ comp.phase = "logic"
    /\ comp' = [phase |-> "folded", lop |-> comp.lop, a |-> comp.a, r |-> comp.r,
                res |-> eval_logic(comp.lop, EvalOk(comp.a),
                                   eval_operand(comp.r, overflow_checks))]
    /\ SimFrame

LogicNext == EvalLogic

LogicSpec == LogicInit /\ [][LogicNext]_vars

\* the left operand decides the expression
LeftDecides == (comp.lop = "and" /\ comp.a = 0) \/ (comp.lop = "or" /\ comp.a # 0)

\* C21: where the left operand decides a logical expression (0 && b,
\* non-zero || b) the constant evaluator does not evaluate b: it returns 0
\* for && and 1 for ||, also where b cannot be evaluated
C21_ConstShortCircuit ==
    (comp.phase = "folded" /\ LeftDecides) =>
        /\ comp.res.ok
        /\ comp.res.val = (IF comp.lop = "and" THEN 0 ELSE 1)

\* ---- the spans of nested braces in the flat list ----

RECURSIVE InitAt(_, _, _)
\* the InitVal reached from init_val by the steps i.. of place p
InitAt(init_val, p, i) ==
    IF i > Len(p) THEN init_val ELSE InitAt(init_val.items[p[i]], p, i + 1)

\* the places of the initializer that pushed a value, and those above them
InitPlaces ==
    UNION {{SubSeq(comp.vec[i].by, 1, n) : n \in 0..Len(comp.vec[i].by)} :
              i \in 1..Len(comp.vec)}

\* index i of the flat list was filled by the InitVal at place p
InSpan(p, i) == i \in 1..Len(comp.vec) /\ IsPrefix(p, comp.vec[i].by)

\* the indices of the flat list filled by the InitVal at place p
SpanOf(p) == {i \in 1..Len(comp.vec) : InSpan(p, i)}

\* the indices where a run of values of the InitVal at place p starts
SpanStarts(p) == {i \in 1..Len(comp.vec) : InSpan(p, i) /\ ~InSpan(p, i - 1)}

\* the first index of a span
SpanStart(p) == CHOOSE i \in SpanStarts(p) : \A j \in SpanStarts(p) : i <= j

\* the place of the brace list that holds the InitVal at place p
ParentPlace(p) == SubSeq(p, 1, Len(p) - 1)

\* the offset of the InitVal at place p inside its parent aggregate
OffsetIn(p) == SpanStart(p) - SpanStart(ParentPlace(p))

\* the product of the last k dimensions
LastProduct(k) == take_product(comp.dims, Len(comp.dims) - k + 1, 1)

\* the largest k below rank such that the product of the last k dimensions
\* divides o; -1 when rank allows none
LargestAlign(rank, o) ==
    IF rank < 1 THEN -1
    ELSE CHOOSE k \in 0..(rank - 1) :
            /\ o % LastProduct(k) = 0
            /\ \A m \in (k + 1)..(rank - 1) : o % LastProduct(m) # 0

RECURSIVE BraceRank(_)
\* the number of trailing dimensions the brace at place p fills: all of them
\* for the outermost one
BraceRank(p) ==
    IF p = <<>> THEN Len(comp.dims)
    ELSE LargestAlign(BraceRank(ParentPlace(p)), OffsetIn(p))

\* the brace at place p fills one run of indices: first the values of its
\* items in source order, then its own zeros
BraceInOrder(p) ==
    /\ Cardinality(SpanStarts(p)) = 1
    /\ \A i \in 1..Len(comp.vec) :
          (InSpan(p, i) /\ comp.vec[i].by = p) => comp.vec[i].v = "zero"
    /\ \A i \in 1..(Len(comp.vec) - 1) :
          (InSpan(p, i) /\ InSpan(p, i + 1) /\ comp.vec[i + 1].by # p) =>
              /\ comp.vec[i].by # p
              /\ comp.vec[i].by[Len(p) + 1] <= comp.vec[i + 1].by[Len(p) + 1]

\* the brace at place p fills the product of the last k dimensions
BraceFilled(p, k) ==
    k >= 0 => (Cardinality(SpanOf(p)) = LastProduct(k) /\ BraceInOrder(p))

\* the InitVal at place p fills what its kind and place require
PlaceFilled(p, init_val) ==
    IF init_val.k = "exp"
    THEN \E i \in 1..Len(comp.vec) : SpanOf(p) = {i} /\ comp.vec[i].v = "exp"
    ELSE BraceFilled(p, BraceRank(p))

\* C22: in the flat list of an accepted initializer every brace list fills
\* exactly the product of the last k dimensions, k the largest number below
\* the rank of its parent such that this product divides its offset in the
\* parent; its values keep source order, zeros fill the rest of its span, and
\* a scalar fills one element
C22_BraceSpans ==
    comp.phase = "expanded" =>
        \A p \in InitPlaces : PlaceFilled(p, InitAt(comp.init, p, 1))

\* a nested brace met at a non-zero offset fills one row: a value, then zeros
C22_Witness ==
    /\ comp.phase = "expanded"
    /\ Len(comp.dims) = 2
    /\ \E p \in InitPlaces :
          /\ Len(p) = 1
          /\ InitAt(comp.init, p, 1).k = "list"
          /\ OffsetIn(p) > 0
          /\ BraceRank(p) = 1
          /\ Cardinality(SpanOf(p)) >= 2
          /\ \E i, j \in SpanOf(p) :
                /\ comp.vec[i].v = "exp" /\ comp.vec[j] = InitElem("zero", p)
          /\ \E i \in 1..Len(comp.vec) : i < SpanStart(p) /\ comp.vec[i].v = "exp"

\* ---- the byte ranges of the slots of a planned frame ----

\* the bytes that the value with slot key occupies: the size of what it
\* points to for an allocation, one word for any other value
SlotBytes(key) ==
    LET size == IF key[1] = "v" /\ comp.values[key[2]].k = "alloc"
                THEN comp.values[key[2]].size ELSE 4
    IN  comp.offset[key]..(comp.offset[key] + size - 1)

\* the bytes of the frame where the prologue saves fp and ra: sw fp, 0(sp)
\* and sw ra, 4(sp) in FunctionData::build, sw ra, size - 4(sp) in
\* FunctionData::generate
SavedWords ==
    IF comp.planner = "build" THEN 0..7
    ELSE (comp.frame_size - 4)..(comp.frame_size - 1)

\* C23: in a planned frame the byte ranges of the slots, each as large as
\* the type allocated (4 * N bytes for an array of N ints), are pairwise
\* disjoint and disjoint from the words that hold the saved fp and ra
C23_SlotsDisjoint ==
    FramePlanned =>
        /\ \A k1, k2 \in DOMAIN comp.offset :
              k1 # k2 => SlotBytes(k1) \cap SlotBytes(k2) = {}
        /\ \A key \in DOMAIN comp.offset : SlotBytes(key) \cap SavedWords = {}

-----------------------------------------------------------------------------
(* One instruction through the four stage functions of decode.rs, applied one
   after the other on a register file and a memory of their own: x5 and x6
   hold the operands, x7 is the destination, and the first eight bytes of
   guest memory hold the datum a load reads. *)

\* the operand and memory values tried
StageVals ==
    { Zero64,
      <<1, 0, 0, 0, 0, 0, 0, 0>>,
      <<31, 0, 0, 0, 0, 0, 0, 0>>,
      <<128, 0, 0, 0, 0, 0, 0, 0>>,
      <<0, 128, 0, 0, 0, 0, 0, 0>>,
      <<255, 255, 255, 127, 0, 0, 0, 0>>,
      <<0, 0, 0, 128, 0, 0, 0, 0>>,
      <<255, 255, 255, 255, 0, 0, 0, 0>>,
      <<7, 0, 0, 0, 1, 0, 0, 0>>,
      <<1, 2, 3, 4, 5, 6, 7, 136>>,
      Ones64 }

\* the shift amounts and the immediate of addiw tried
StageShamts == {0, 1, 31}

\* the loads: lb, lh, lw, ld, lbu, lhu, lwu x7, 0(x5)
StageLoads == {Word(0, 0, 5, f3, 7, 3) : f3 \in 0..6}

\* addiw, slliw, srliw, sraiw x7, x5, n
StageImmOps ==
    {Word(0, n, 5, 0, 7, 27) : n \in StageShamts}
    \cup {Word(0, n, 5, 1, 7, 27) : n \in StageShamts}
    \cup {Word(0, n, 5, 5, 7, 27) : n \in StageShamts}
    \cup {Word(32, n, 5, 5, 7, 27) : n \in StageShamts}

\* addw, subw, sllw, srlw, sraw, mulw, divw, divuw, remw, remuw x7, x5, x6
StageRegOps ==
    {Word(0, 6, 5, f3, 7, 59) : f3 \in {0, 1, 5}}
    \cup {Word(32, 6, 5, f3, 7, 59) : f3 \in {0, 5}}
    \cup {Word(1, 6, 5, f3, 7, 59) : f3 \in {0, 4, 5, 6, 7}}

StageWords == StageLoads \cup StageImmOps \cup StageRegOps

\* the register file before the instruction: a load finds the base of guest
\* memory in x5
StageRegs(inst, a, b) ==
    [i \in 0..31 |->
        IF i = 5 THEN (IF inst \in StageLoads THEN MEM_BASE ELSE a)
        ELSE IF i = 6 THEN b
        ELSE Zero64]

StageInit ==
    /\ \E inst \in StageWords, a \in StageVals, b \in StageVals :
          comp = [phase |-> "fetched", inst |-> inst, a |-> a, b |-> b,
                  cpu |-> [CPUState_new EXCEPT !.reg = StageRegs(inst, a, b),
                                               !.running = TRUE],
                  mem |-> [o \in 0..(MEM_SIZE - 1) |-> IF o < 8 THEN b[o + 1] ELSE 0],
                  rep |-> NoReport,
                  reg |-> [pc |-> MEM_BASE, inst |-> inst]]
    /\ overflow_checks \in BOOLEAN
    /\ SimIdle

\* the state after a stage function returned r, or the abort of its panic
StageAfter(phase, r, m) ==
    IF r.panic THEN [comp EXCEPT !.phase = "panicked"]
    ELSE [comp EXCEPT !.phase = phase, !.cpu = r.cpu, !.mem = m,
                      !.rep = r.report, !.reg = r.reg]

\* decode_stage leaves cpu and the report alone
StageDecoded(r) ==
    IF r.panic THEN [comp EXCEPT !.phase = "panicked"]
    ELSE [comp EXCEPT !.phase = "decoded", !.reg = r.reg]

\* writeback_stage produces no further pipeline register
StageRetired(r) ==
    IF r.panic THEN [comp EXCEPT !.phase = "panicked"]
    ELSE [comp EXCEPT !.phase = "retired", !.cpu = r.cpu, !.rep = r.report]

StageDecode ==
    /\ comp.phase = "fetched"
    /\ comp' = StageDecoded(decode_stage(comp.cpu, comp.reg))
    /\ SimFrame

StageExecute ==
    /\ comp.phase = "decoded"
    /\ comp' = StageAfter("executed",
                          execute_stage(comp.cpu, comp.rep, comp.reg, overflow_checks),
                          comp.mem)
    /\ SimFrame

\* the bytes a read past the end of the host array returns are any bytes
StageMemUb ==
    IF memory_stage(comp.cpu, comp.rep, comp.reg, comp.mem, 0, overflow_checks).ub
    THEN UbChoices ELSE {0}

StageMemoryOf(r) == StageAfter("accessed", r, r.mem)

StageMemory ==
    /\ comp.phase = "executed"
    /\ \E ub \in StageMemUb :
          comp' = StageMemoryOf(memory_stage(comp.cpu, comp.rep, comp.reg,
                                             comp.mem, ub, overflow_checks))
    /\ SimFrame

StageWriteback ==
    /\ comp.phase = "accessed"
    /\ comp' = StageRetired(writeback_stage(comp.cpu, comp.rep, comp.reg))
    /\ SimFrame

StageNext == StageDecode \/ StageExecute \/ StageMemory \/ StageWriteback

StageSpec == StageInit /\ [][StageNext]_vars

\* the value a load of the given kind reads from the eight bytes d: the low
\* 1, 2, 4 or 8 bytes, sign-extended by lb, lh, lw and zero-extended by lbu,
\* lhu, lwu
SignExtend(d, n) ==
    [i \in 1..8 |-> IF i <= n THEN d[i] ELSE IF d[n] >= 128 THEN 255 ELSE 0]

LoadValue(name, d) ==
    CASE name = "lb" -> SignExtend(d, 1)
      [] name = "lh" -> SignExtend(d, 2)
      [] name = "lw" -> SignExtend(d, 4)
      [] name = "lbu" -> ZExt(Trunc(d, 1))
      [] name = "lhu" -> ZExt(Trunc(d, 2))
      [] name = "lwu" -> ZExt(Trunc(d, 4))
      [] OTHER -> d

\* C24: after the writeback of a load of any of the seven kinds, rd holds the
\* value read from memory, sign-extended by lb, lh and lw, zero-extended by
\* lbu, lhu and lwu, unchanged by ld; it never holds the effective address
C24_LoadValue ==
    (comp.phase = "retired" /\ IsLoad(comp.inst)) =>
        comp.cpu.reg[7] = LoadValue(NameOf(comp.inst), comp.b)

\* the word-width operations
WordOps ==
    {"addiw", "slliw", "srliw", "sraiw", "addw", "subw", "sllw", "srlw",
     "sraw", "mulw", "divw", "divuw", "remw", "remuw"}

\* C25: the result execute_stage computes for a word-width operation has its
\* upper 32 bits all equal to bit 31 of its lower 32 bits
C25_WordSignExtended ==
    (comp.phase = "executed" /\ NameOf(comp.inst) \in WordOps) =>
        comp.reg.alu_out = SignExtend(comp.reg.alu_out, 4)

-----------------------------------------------------------------------------
(* The program of a loaded image taken one instruction at a time: the word at
   the PC goes through decode_stage, execute_stage, memory_stage and
   writeback_stage before the next word is fetched. *)

\* the outcome of a run: it reached the halt of an ebreak at pc with the
\* register file reg and the memory mem, or it did not (a panic, a host access outside
\* the array, or more than the instructions allowed)
SeqHalted(c, m) == [halted |-> TRUE, reg |-> c.reg, mem |-> m, pc |-> c.pc]

SeqNone == [halted |-> FALSE, reg |-> CPUState_new.reg, mem |-> <<>>, pc |-> Zero64]

\* the PC of the next instruction: the target execute_stage computed for a
\* jump or branch, and the following word otherwise
SeqNextPc(c, de) ==
    [c EXCEPT !.pc = IF de.reg.jump THEN c.next_pc ELSE WrappingAdd(de.reg.pc, Four)]

RECURSIVE SeqRun(_, _, _, _)

\* the instruction after its writeback (wb): the next one, if any is left
SeqRetire(de, ms, wb, oc, n) ==
    IF wb.panic THEN SeqNone
    ELSE SeqRun(SeqNextPc(wb.cpu, de), ms.mem, oc, n - 1)

\* the instruction after memory_stage (ms)
SeqMemory(de, ms, oc, n) ==
    IF ms.panic \/ ms.ub THEN SeqNone
    ELSE SeqRetire(de, ms, writeback_stage(ms.cpu, ms.report, ms.reg), oc, n)

\* the instruction after execute_stage (ex): the halt trap of an ebreak ends
\* the run
SeqExecute(de, ex, m, oc, n) ==
    IF ex.panic THEN SeqNone
    ELSE IF ~ex.cpu.running THEN SeqHalted(ex.cpu, m)
    ELSE SeqMemory(de, memory_stage(ex.cpu, ex.report, ex.reg, m, 0, oc), oc, n)

\* the instruction after decode_stage (de)
SeqDecode(c, de, m, oc, n) ==
    IF de.panic THEN SeqNone
    ELSE SeqExecute(de, execute_stage(c, NoReport, de.reg, oc), m, oc, n)

\* the instruction after its fetch (fe)
SeqFetch(c, fe, m, oc, n) ==
    IF ~fe.ok \/ fe.ub THEN SeqNone
    ELSE SeqDecode(c, decode_stage(c, [pc |-> c.pc, inst |-> fe.val]), m, oc, n)

\* at most n instructions from the PC of c on the memory m
SeqRun(c, m, oc, n) ==
    IF n = 0 THEN SeqNone
    ELSE SeqFetch(c, inst_fetch(m, c.pc, 0), m, oc, n)

\* the memory as load_image left it, for a program that does not store into
\* its image
LoadedMem == [o \in 0..(MEM_SIZE - 1) |-> IF o < ImageBytes THEN mem[o] ELSE 0]

\* the run of the loaded program from the state Pipeline::init leaves
SeqProgram ==
    SeqRun([CPUState_new EXCEPT !.running = TRUE], LoadedMem, overflow_checks,
           MaxCycles)

\* an ebreak has halted the pipeline
HaltedByTrap == proc = "alive" /\ ~cpu.running /\ report.trap # "none"

\* C26: when the pipeline halts at an ebreak, its register file and memory
\* are those the same program leaves when its instructions go through the
\* four stage functions one at a time in program order
C26_SameAsSequential ==
    (HaltedByTrap /\ SeqProgram.halted) =>
        /\ cpu.reg = SeqProgram.reg
        /\ mem = SeqProgram.mem

\* C27: when an ebreak has halted the simulator no earlier instruction is
\* left in the pipeline with its result unwritten: the writeback of the
\* instruction held in MEM/WB would not change the register file
C27_WrittenBackAtHalt ==
    HaltedByTrap =>
        writeback_regs(cpu, W_reg, NameOf(W_reg.inst)) = cpu.reg

-----------------------------------------------------------------------------
(* Images with a jump or a taken branch over one or two words: auipc x6,0 ;
   the jump ; the words jumped over ; ebreak ; NOPs. *)

\* the words placed on the wrong path: two that no row of INSTRUCTIONS
\* matches, an ebreak, a register write and a store into the last word of
\* guest memory
WrongWords ==
    { <<0, 0, 0, 0>>,
      <<255, 255, 255, 255>>,
      EBREAK_INST,
      Word(0, 0, 0, 0, 7, 23),                                   \* auipc x7, 0
      Word((MEM_SIZE - 4) \div 32, 6, 6, 2, (MEM_SIZE - 4) % 32, 35) }
                                                  \* sw x6, MEM_SIZE-4(x6)

\* jal x0, 8 and the taken bne x6, x0, 8 skip one word; jal x0, 12 skips two
FlushImages ==
    { <<Word(0, 0, 0, 0, 6, 23), j, w, EBREAK_INST, NOP_INST, NOP_INST>> :
        j \in {Word(0, 8, 0, 0, 0, 111), Word(0, 0, 6, 1, 8, 99)},
        w \in WrongWords }
    \cup
    { <<Word(0, 0, 0, 0, 6, 23), Word(0, 12, 0, 0, 0, 111), w, v,
        EBREAK_INST, NOP_INST, NOP_INST>> :
        w \in WrongWords, v \in WrongWords }

\* GuiApp::default with one of these images loaded
FlushInit ==
    /\ \E img \in FlushImages : mem = load_image(img)
    /\ PipelineInit
    /\ overflow_checks \in BOOLEAN
    /\ proc = "alive"
    /\ report = NoReport
    /\ cmd = "idle"
    /\ left = 0
    /\ step_counter = 0
    /\ ev = NoEv
    /\ mret = NoRet
    /\ mops = 0
    /\ comp = NoComp

FlushSpec == FlushInit /\ [][Next]_vars

\* C28: the words a jump or taken branch skips have no effect on a program
\* that halts when taken in program order: the simulator is not aborted, the
\* register and the memory word only a skipped word would write keep their
\* values, and running is cleared by the ebreak of the program alone
C28_WrongPathHarmless ==
    SeqProgram.halted =>
        /\ proc \notin {"panicked", "crashed"}
        /\ cpu.reg[7] = Zero64
        /\ mem = LoadedMem
        /\ (HaltedByTrap => report.pc = SeqProgram.pc)

-----------------------------------------------------------------------------
(* Accesses and guest memory *)

\* the n bytes at address a lie inside guest memory
InsideGuest(a, n) ==
    /\ ~LtU(a, MEM_BASE)
    /\ ~LtU(MEM_END, a)
    /\ ToInt(WrappingSub(a, MEM_BASE)) + n <= MEM_SIZE

\* C29: a mem_read, mem_write or inst_fetch of w bytes at address a that
\* returns Ok has MEM_BASE <= a and a + w <= MEM_BASE + MEM_SIZE, and
\* load_elf changes guest memory only for a segment whose whole address range
\* lies inside guest memory
C29_InsideGuest ==
    [][mops' = mops + 1 =>
        /\ (mret'.op \in {"read", "write", "fetch"} /\ mret'.ok
                /\ proc' = "alive") =>
              InsideGuest(mret'.addr, mret'.len)
        /\ (mret'.op = "elf" /\ mem' # mem) =>
              InsideGuest(mret'.addr, mret'.len)]_vars

-----------------------------------------------------------------------------
(* A call and the function it calls, as FunctionData::build emits them, run
   on a machine of integer registers and a stack of words.  The caller's
   argument i is the number 100 + i kept in a slot of the caller's frame, or
   the integer constant 500 + i; the word at every other address a holds
   -(a + 1), a number found nowhere else. *)

\* the largest number of arguments of the call
MaxArgs == 10

\* the largest number of values the called function defines besides its
\* parameters
MaxLocals == 2

\* sp and fp of the caller before the call sequence
StackTop == 16 * 256

\* the offsets of the caller's slot of its first argument
ArgBases == {8, 2008, 2048}

\* the caller's arguments: those after the first in consecutive slots from
\* base on, the one at place int (if any) an integer constant
CallArgs(nargs, base, int) ==
    [j \in 1..nargs |->
        IF j = int THEN [k |-> "int", v |-> 500 + j]
        ELSE SlotArg(base + 4 * j)]

\* the value of the caller's argument at place j
ArgVal(args, j) == IF args[j].k = "int" THEN args[j].v ELSE 100 + j

\* the offset from the callee's fp of the word the caller stored for
\* parameter i, taken without the callee's frame
caller_offset_no_frame(frame_size, i) == 4 * (i - 8)

\* FunctionData::build, prologue: frame_size + 4 * (i - 8)
caller_offset(frame_size, i) == frame_size + 4 * (i - 8)

RECURSIVE save_reg_params(_, _, _)
\* FunctionData::build, prologue: the first eight parameters go from
\* a0..a7 to their slots
save_reg_params(params, i, offset) ==
    IF i >= Min(params, 8) THEN <<>>
    ELSE slot_sw(ArgReg(i + 1), offset[<<"p", i + 1>>])
         \o save_reg_params(params, i + 1, offset)

RECURSIVE save_stack_params(_, _, _, _)
\* FunctionData::build, prologue: the parameters from the ninth on go from
\* the caller's stack through t0 to their slots
save_stack_params(params, i, frame_size, offset) ==
    IF i >= params THEN <<>>
    ELSE slot_lw("t0", caller_offset(frame_size, i))
         \o slot_sw("t0", offset[<<"p", i + 1>>])
         \o save_stack_params(params, i + 1, frame_size, offset)

\* FunctionData::build, 3): the prologue
build_prologue(params, frame_size, offset) ==
    (IF frame_size > 0
     THEN IF is_imm12(-frame_size)
          THEN <<AsmInst("addi", "sp", "sp", "", -frame_size)>>
          ELSE <<AsmInst("li", "t6", "", "", frame_size),
                 AsmInst("sub", "sp", "sp", "t6", 0)>>
     ELSE <<>>)
    \o <<AsmInst("sw", "fp", "sp", "", 0),
         AsmInst("sw", "ra", "sp", "", 4),
         AsmInst("addi", "fp", "sp", "", 0)>>
    \o save_reg_params(params, 0, offset)
    \o save_stack_params(params, 8, frame_size, offset)

\* FunctionData::build, the Return arm with an integer constant
build_return(value, frame_size) ==
    <<AsmInst("li", "t0", "", "", value),
      AsmInst("mv", "a0", "t0", "", 0),
      AsmInst("lw", "ra", "sp", "", 4),
      AsmInst("lw", "fp", "sp", "", 0)>>
    \o (IF frame_size > 0
        THEN IF is_imm12(frame_size)
             THEN <<AsmInst("addi", "sp", "sp", "", frame_size)>>
             ELSE <<AsmInst("li", "t6", "", "", frame_size),
                    AsmInst("add", "sp", "sp", "t6", 0)>>
        ELSE <<>>)
    \o <<AsmInst("ret", "", "", "", 0)>>

\* FunctionData::build of a function of params parameters whose body is
\* `return 7`, with the frame plan
build_function(params, plan) ==
    build_prologue(params, plan.frame_size, plan.offset)
    \o build_return(7, plan.frame_size)

\* the plan of the called function
CalleePlan(params, locals) ==
    plan_build([i \in 1..locals |-> [k |-> "val", arg |-> FALSE]], params, 0)

\* the machine: registers, the words written, and the loads, stores and
\* calls made so far
MachineRegs == {"sp", "fp", "ra", "t0", "t6"} \cup {ArgReg(i) : i \in 1..8}

ReadWord(stack, a) == IF a \in DOMAIN stack THEN stack[a] ELSE -(a + 1)

Access(op, reg, addr) == [op |-> op, reg |-> reg, addr |-> addr]

\* one instruction other than call and ret
asm_exec(i, st) ==
    CASE i.op = "li" -> [st EXCEPT !.regs[i.a] = i.imm]
      [] i.op = "mv" -> [st EXCEPT !.regs[i.a] = st.regs[i.b]]
      [] i.op = "addi" -> [st EXCEPT !.regs[i.a] = st.regs[i.b] + i.imm]
      [] i.op = "add" -> [st EXCEPT !.regs[i.a] = st.regs[i.b] + st.regs[i.c]]
      [] i.op = "sub" -> [st EXCEPT !.regs[i.a] = st.regs[i.b] - st.regs[i.c]]
      [] i.op = "lw" ->
            [st EXCEPT !.regs[i.a] = ReadWord(st.stack, st.regs[i.b] + i.imm),
                       !.log = Append(@, Access("lw", i.a, st.regs[i.b] + i.imm))]
      [] i.op = "sw" ->
            [st EXCEPT !.stack = ((st.regs[i.b] + i.imm) :> st.regs[i.a]) @@ @,
                       !.log = Append(@, Access("sw", i.a, st.regs[i.b] + i.imm))]
      [] OTHER -> st

\* the caller's frame before the call: sp = fp, the arguments in their slots
CallerState(args) ==
    [regs |-> [r \in MachineRegs |-> IF r \in {"sp", "fp"} THEN StackTop ELSE 0],
     stack |-> [a \in {StackTop + args[j].off : j \in {j \in 1..Len(args) : args[j].k = "slot"}} |->
                  LET j == CHOOSE j \in 1..Len(args) :
                              args[j].k = "slot" /\ StackTop + args[j].off = a
                  IN  100 + j],
     log |-> <<>>]

CallInit ==
    /\ \E nargs \in 0..MaxArgs, base \in ArgBases, locals \in 0..MaxLocals :
         \E int \in 0..nargs :
            comp = [phase |-> "call", args |-> CallArgs(nargs, base, int),
                    locals |-> locals, dst |-> base + 4 * (MaxArgs + 1),
                    site |-> <<>>, callee |-> <<>>, plan |-> <<>>,
                    pc |-> 1, cpc |-> 0,
                    m |-> CallerState(CallArgs(nargs, base, int))]
    /\ overflow_checks = FALSE
    /\ SimIdle

\* FunctionData::build of the caller comes to the call
EmitCallSite ==
    /\ comp.phase = "call"
    /\ comp' = [comp EXCEPT !.phase = "site",
                            !.site = build_call(comp.args,
                                                Max(Len(comp.args) - 8, 0), comp.dst)]
    /\ SimFrame

\* FunctionData::build of the called function
EmitCallee ==
    /\ comp.phase = "site"
    /\ comp' = [comp EXCEPT !.phase = "built",
                            !.plan = CalleePlan(Len(comp.args), comp.locals),
                            !.callee = build_function(Len(comp.args),
                                           CalleePlan(Len(comp.args), comp.locals))]
    /\ SimFrame

\* the instruction at place pc of the call sequence runs; a call enters the
\* called function, and after the last instruction the sequence has run
RunCallSite ==
    /\ comp.phase = "built" /\ comp.cpc = 0
    /\ comp' =
         IF comp.site[comp.pc].op = "call"
         THEN [comp EXCEPT !.cpc = 1, !.pc = @ + 1,
                           !.m.log = Append(@, Access("call", "", 0))]
         ELSE [comp EXCEPT !.pc = @ + 1,
                           !.m = asm_exec(comp.site[comp.pc], comp.m),
                           !.phase = IF comp.pc = Len(comp.site) THEN "ran" ELSE @]
    /\ SimFrame

\* the instruction at place cpc of the called function runs; ret goes back
\* to the call sequence
RunCallee ==
    /\ comp.phase = "built" /\ comp.cpc > 0
    /\ comp' =
         IF comp.callee[comp.cpc].op = "ret"
         THEN [comp EXCEPT !.cpc = 0]
         ELSE [comp EXCEPT !.cpc = @ + 1,
                           !.m = asm_exec(comp.callee[comp.cpc], comp.m)]
    /\ SimFrame

CallNext == EmitCallSite \/ EmitCallee \/ RunCallSite \/ RunCallee

CallSpec == CallInit /\ [][CallNext]_vars

\* the place of the call in the log of accesses
CallAt == CHOOSE n \in 1..Len(comp.m.log) : comp.m.log[n].op = "call"

\* the addresses of the caller's stores before the call, in order
StoredAt ==
    LET before == SubSeq(comp.m.log, 1, CallAt - 1)
        stores == SelectSeq(before, LAMBDA e : e.op = "sw")
    IN  [n \in 1..Len(stores) |-> stores[n].addr]

\* the addresses of the loads into t0 of the called function, in order
LoadedAt ==
    LET after == SubSeq(comp.m.log, CallAt + 1, Len(comp.m.log))
        loads == SelectSeq(after, LAMBDA e : e.op = "lw" /\ e.reg = "t0")
    IN  [n \in 1..Len(loads) |-> loads[n].addr]

\* fp of the called function
CalleeFp == (StackTop - 4 * (Len(comp.args) - 8)) - comp.plan.frame_size

\* a call of more than eight arguments has run
RanStackCall == comp.phase = "ran" /\ Len(comp.args) > 8

\* C30: in a call of n > 8 arguments the called function's prologue reads
\* each argument i in 8..n-1 from the address where the caller stored it
\* (so that the function's slot of parameter i receives the caller's
\* argument i), and sp after the call sequence is sp before it
C30_StackArgs ==
    RanStackCall =>
        /\ Len(StoredAt) = Len(comp.args) - 8
        /\ LoadedAt = StoredAt
        /\ \A i \in 8..(Len(comp.args) - 1) :
              ReadWord(comp.m.stack, CalleeFp + comp.plan.offset[<<"p", i + 1>>])
                  = ArgVal(comp.args, i + 1)
        /\ comp.m.regs["sp"] = StackTop

\* C30 witness: a call of ten arguments, the last an integer constant and
\* the ninth from a slot beyond the 12-bit range, has run; the called
\* function's slot of the last parameter holds the constant
C30_Witness ==
    /\ RanStackCall
    /\ Len(comp.args) = 10
    /\ comp.args[10].k = "int"
    /\ comp.args[9].k = "slot" /\ ~is_imm12(comp.args[9].off)
    /\ ReadWord(comp.m.stack, CalleeFp + comp.plan.offset[<<"p", 10>>]) = 510
    /\ Len(LoadedAt) = 2
    /\ comp.m.regs["sp"] = StackTop

=============================================================================
